---- MODULE Spec2Model ----
(***************************************************************************)
(* The A02 policy schedulers (FCFS, Round Robin, SJF, SRTF, Priority,      *)
(* Adaptive) of src/A02/schedulers and the Process class of                *)
(* src/A02/pkg/process.py, as one state machine.  A scheduler object is    *)
(* the tuple of variables below; Process objects live in the heap `procs`  *)
(* and the queues hold references (indices into procs), as the Python      *)
(* lists and deques hold object references.  One Step is one call of       *)
(* step(); one AddProcess is one call of add_process().                    *)
(* Python's 0-based cpu_index / io_index are the 1-based positions of the  *)
(* sequences cpu_queue / io_queue here; current_burst_index keeps its      *)
(* 0-based value.  The standalone Round Robin simulation of               *)
(* src/A02/scheduler.py (classes Job and Scheduler) is the record          *)
(* `standalone`, stepped beside an RRScheduler in SpecJobs.                *)
(***************************************************************************)
EXTENDS Integers, Sequences, FiniteSets, TLC

VARIABLES
    policy, num_cpus, num_ios, quantum, preemptive,   \* constructor arguments
    procs,              \* heap of Process objects, in order of construction
    not_arrived, ready_queue, wait_queue, cpu_queue, io_queue, finished,
    quantum_remaining,  \* dict cpu slot -> remaining quantum (RR, Adaptive)
    current_quantum, load_history,                    \* Adaptive only
    clock,
    dispatch_log, preempt_log,  \* history: <<tick, process>> of every dispatch / preemption
    add_log,            \* history: add_log[o] is the clock at which process o was added
    last_snapshot,      \* <<r>> when the last call was snapshot() and returned r, else <<>>
    twin, twin_lag,     \* a second run of the same calls, and the calls it has still to make
    standalone          \* the Scheduler object of src/A02/scheduler.py, run beside an RRScheduler

vars == <<policy, num_cpus, num_ios, quantum, preemptive, procs, not_arrived,
          ready_queue, wait_queue, cpu_queue, io_queue, finished,
          quantum_remaining, current_quantum, load_history, clock,
          dispatch_log, preempt_log, add_log, last_snapshot, twin, twin_lag,
          standalone>>

\* ------------------------------------------------------------------ bounds
MaxProcs == 2        \* add_process calls per run
MaxAddClock == 1     \* add_process is called while clock <= MaxAddClock
MaxArrival == 1      \* arrival_time of a general descriptor is in 0..MaxArrival
MaxDur == 2          \* burst durations of a general descriptor are in 1..MaxDur
MaxCpus == 2
MaxIos == 2
MaxQuantum == 2

\* ------------------------------------------------------------- Python values
None == 0            \* an empty slot of cpu_queue / io_queue
NoTime == -1         \* attribute first_run_time / first_dispatch_time not yet set
Inf == 1000000       \* float('inf') as a sort key

Policies == {"FCFS", "RR", "SJF", "SRTF", "Priority", "Adaptive"}

cpu(d) == [kind |-> "cpu", duration |-> d]
io(d) == [kind |-> "io", duration |-> d]

\* ------------------------------------------------------------------ Process
Process(pid, bursts, priority, arrival_time) ==
    [pid |-> pid, bursts |-> bursts, priority |-> priority,
     arrival_time |-> arrival_time, state |-> "new",
     current_burst_index |-> 0, time_in_burst |-> 0,
     wait_time |-> 0, turnaround_time |-> 0, runtime |-> 0, io_time |-> 0,
     end_time |-> 0, first_run_time |-> NoTime,
     has_burst_history |-> FALSE, burst_history |-> <<>>]

has_current_burst(p) == p.current_burst_index < Len(p.bursts)

current_burst(p) == p.bursts[p.current_burst_index + 1]

is_complete(p) == p.current_burst_index >= Len(p.bursts)

\* advance_burst with `self.runtime = burst["cpu"]` for `+=`
advance_burst_assign(p) ==
    IF p.current_burst_index >= Len(p.bursts)
    THEN [proc |-> p, done |-> FALSE]
    ELSE LET burst == p.bursts[p.current_burst_index + 1]
             t == p.time_in_burst + 1
         IN IF t >= burst.duration
            THEN [proc |-> [p EXCEPT !.time_in_burst = 0,
                                     !.current_burst_index = @ + 1,
                                     !.runtime = IF burst.kind = "cpu"
                                                 THEN burst.duration ELSE @,
                                     !.io_time = IF burst.kind = "io"
                                                 THEN @ + burst.duration ELSE @],
                  done |-> TRUE]
            ELSE [proc |-> [p EXCEPT !.time_in_burst = t], done |-> FALSE]

\* advance_burst that also counts the tick it advances by, in runtime or
\* io_time, on top of the duration it adds at completion
advance_burst_count_ticks(p) ==
    IF p.current_burst_index >= Len(p.bursts)
    THEN [proc |-> p, done |-> FALSE]
    ELSE LET burst == p.bursts[p.current_burst_index + 1]
             t == p.time_in_burst + 1
             q == [p EXCEPT !.runtime = IF burst.kind = "cpu" THEN @ + 1 ELSE @,
                            !.io_time = IF burst.kind = "io" THEN @ + 1 ELSE @]
         IN IF t >= burst.duration
            THEN [proc |-> [q EXCEPT !.time_in_burst = 0,
                                     !.current_burst_index = @ + 1,
                                     !.runtime = IF burst.kind = "cpu"
                                                 THEN @ + burst.duration ELSE @,
                                     !.io_time = IF burst.kind = "io"
                                                 THEN @ + burst.duration ELSE @],
                  done |-> TRUE]
            ELSE [proc |-> [q EXCEPT !.time_in_burst = t], done |-> FALSE]

\* advance_burst: the process after the call, and the value returned
advance_burst(p) ==
    IF p.current_burst_index >= Len(p.bursts)
    THEN [proc |-> p, done |-> FALSE]
    ELSE LET burst == p.bursts[p.current_burst_index + 1]
             t == p.time_in_burst + 1
             burst_complete == t >= burst.duration
         IN IF burst_complete
            THEN [proc |-> [p EXCEPT !.time_in_burst = 0,
                                     !.current_burst_index = @ + 1,
                                     !.runtime = IF burst.kind = "cpu"
                                                 THEN @ + burst.duration ELSE @,
                                     !.io_time = IF burst.kind = "io"
                                                 THEN @ + burst.duration ELSE @],
                  done |-> TRUE]
            ELSE [proc |-> [p EXCEPT !.time_in_burst = t], done |-> FALSE]

\* ------------------------------------------------------- list.sort (stable)
\* keys are pairs <<a, b>>, compared as Python compares tuples
KeyLess(k1, k2) == k1[1] < k2[1] \/ (k1[1] = k2[1] /\ k1[2] < k2[2])

RECURSIVE InsertByKey(_, _, _)
InsertByKey(sorted, x, key) ==
    IF sorted = <<>> THEN <<x>>
    ELSE IF KeyLess(key[x], key[Head(sorted)])
         THEN <<x>> \o sorted
         ELSE <<Head(sorted)>> \o InsertByKey(Tail(sorted), x, key)

RECURSIVE SortedBy(_, _)
SortedBy(q, key) ==
    IF q = <<>> THEN <<>>
    ELSE InsertByKey(SortedBy(SubSeq(q, 1, Len(q) - 1), key), q[Len(q)], key)

Occupied(slots) == Cardinality({i \in DOMAIN slots : slots[i] # None})

FirstFree(slots) == CHOOSE i \in DOMAIN slots :
                        slots[i] = None /\ \A j \in DOMAIN slots : j < i => slots[j] # None

\* ---------------------------------------------------------- scheduler state
\* The scheduler object as a record, so that the phases of step() compose.
Sched == [procs |-> procs, not_arrived |-> not_arrived, ready_queue |-> ready_queue,
          wait_queue |-> wait_queue, cpu_queue |-> cpu_queue, io_queue |-> io_queue,
          finished |-> finished, quantum_remaining |-> quantum_remaining,
          current_quantum |-> current_quantum, load_history |-> load_history,
          clock |-> clock, dispatch_log |-> dispatch_log, preempt_log |-> preempt_log]

Objs(S) == DOMAIN S.procs

\* ------------------------------------------------------------ sort keys
ArrivalKey(S) == [o \in Objs(S) |-> <<S.procs[o].arrival_time, 0>>]

\* sjf.py get_burst_time
get_burst_time(p) ==
    IF has_current_burst(p) /\ current_burst(p).kind = "cpu"
    THEN current_burst(p).duration ELSE Inf

\* get_remaining_burst_time without `- process.time_in_burst`
get_remaining_burst_time_initial(p) ==
    IF ~(p.current_burst_index < Len(p.bursts)) THEN Inf
    ELSE IF p.bursts[p.current_burst_index + 1].kind = "cpu"
         THEN p.bursts[p.current_burst_index + 1].duration
         ELSE Inf

\* srtf.py _get_remaining_burst_time
get_remaining_burst_time(p) ==
    IF ~has_current_burst(p) THEN Inf
    ELSE IF current_burst(p).kind = "cpu"
         THEN current_burst(p).duration - p.time_in_burst
         ELSE Inf

RECURSIVE SumHistory(_, _)
SumHistory(h, type) ==
    IF h = <<>> THEN 0
    ELSE (IF Head(h)[2] = type THEN Head(h)[1] ELSE 0) + SumHistory(Tail(h), type)

\* adaptive.py _classify_process
classify_process(p) ==
    IF ~p.has_burst_history THEN "unknown"
    ELSE LET cpu_time == SumHistory(p.burst_history, "cpu")
             io_time == SumHistory(p.burst_history, "io")
         IN IF cpu_time > io_time * 2 THEN "cpu_bound"
            ELSE IF io_time > cpu_time * 2 THEN "io_bound"
            ELSE "balanced"

\* adaptive.py priority_key: Process has no get_current_burst_time, so burst_time is 0
priority_key(p) ==
    LET classification == classify_process(p)
        burst_time == 0
    IN IF classification = "io_bound" THEN <<0, burst_time>>
       ELSE IF classification = "balanced" THEN <<1, burst_time>>
       ELSE <<2, burst_time>>

SJF_sort_ready_queue(S) ==
    [S EXCEPT !.ready_queue =
        SortedBy(@, [o \in Objs(S) |-> <<get_burst_time(S.procs[o]), 0>>])]

SRTF_sort_ready_queue(S) ==
    [S EXCEPT !.ready_queue =
        SortedBy(@, [o \in Objs(S) |-> <<get_remaining_burst_time(S.procs[o]), 0>>])]

\* Priority_sort_ready_queue with the arrival_time tie-break descending
Priority_sort_ready_queue_latest_first(S) ==
    [S EXCEPT !.ready_queue =
        SortedBy(@, [o \in Objs(S) |-> <<S.procs[o].priority, 0 - S.procs[o].arrival_time>>])]

Priority_sort_ready_queue(S) ==
    [S EXCEPT !.ready_queue =
        SortedBy(@, [o \in Objs(S) |-> <<S.procs[o].priority, S.procs[o].arrival_time>>])]

Adaptive_sort_ready_queue(S) ==
    [S EXCEPT !.ready_queue =
        SortedBy(@, [o \in Objs(S) |-> priority_key(S.procs[o])])]

\* ------------------------------------------------------------ add_process
\* add_process without the sort of not_arrived
add_process_unsorted(S, process) ==
    LET o == Len(S.procs) + 1
    IN [S EXCEPT !.procs = Append(@, process), !.not_arrived = Append(@, o)]

\* The same two lines in all six schedulers: append, then sort by arrival_time.
add_process(S, process) ==
    LET o == Len(S.procs) + 1
        S1 == [S EXCEPT !.procs = Append(@, process)]
    IN [S1 EXCEPT !.not_arrived = SortedBy(Append(@, o), ArrivalKey(S1))]

\* ---------------------------------------------------------- _check_arrivals
\* FCFS, RR, SRTF and Adaptive append; SJF and Priority also sort after each append.
\* check_arrivals with `<` for `<=`: a process is admitted one tick late
RECURSIVE check_arrivals_strict(_)
check_arrivals_strict(S) ==
    IF S.not_arrived # <<>> /\ S.procs[Head(S.not_arrived)].arrival_time < S.clock
    THEN LET process == Head(S.not_arrived)
             S1 == [S EXCEPT !.not_arrived = Tail(@),
                             !.procs[process].state = "ready",
                             !.ready_queue = Append(@, process)]
         IN check_arrivals_strict(
                IF policy = "SJF" THEN SJF_sort_ready_queue(S1)
                ELSE IF policy = "Priority" THEN Priority_sort_ready_queue(S1)
                ELSE S1)
    ELSE S

RECURSIVE check_arrivals(_)
check_arrivals(S) ==
    IF S.not_arrived # <<>> /\ S.procs[Head(S.not_arrived)].arrival_time <= S.clock
    THEN LET process == Head(S.not_arrived)
             S1 == [S EXCEPT !.not_arrived = Tail(@),
                             !.procs[process].state = "ready",
                             !.ready_queue = Append(@, process)]
         IN check_arrivals(IF policy = "SJF" THEN SJF_sort_ready_queue(S1)
                           ELSE IF policy = "Priority" THEN Priority_sort_ready_queue(S1)
                           ELSE S1)
    ELSE S

\* route_from_cpu with end_time and turnaround_time taken after `clock += 1`
route_from_cpu_next_tick(S, cur, p1) ==
    IF p1.current_burst_index >= Len(p1.bursts)
    THEN [S EXCEPT !.procs[cur] = [p1 EXCEPT !.state = "finished",
                                             !.end_time = S.clock + 1,
                                             !.turnaround_time =
                                                 S.clock + 1 - p1.arrival_time],
                   !.finished = Append(@, cur)]
    ELSE [S EXCEPT !.procs[cur] = [p1 EXCEPT !.state = "waiting"],
                   !.wait_queue = Append(@, cur)]

\* ------------------------------------------------- burst completion routing
\* The branch taken when advance_burst() returned True on a CPU: the slot has
\* been freed by the caller; p1 is the process after advance_burst().
route_from_cpu(S, cur, p1) ==
    IF is_complete(p1)
    THEN [S EXCEPT !.procs[cur] = [p1 EXCEPT !.state = "finished",
                                             !.end_time = S.clock,
                                             !.turnaround_time = S.clock - p1.arrival_time],
                   !.finished = Append(@, cur)]
    ELSE [S EXCEPT !.procs[cur] = [p1 EXCEPT !.state = "waiting"],
                   !.wait_queue = Append(@, cur)]

\* one iteration of the for loop of _process_cpus (FCFS, SJF, SRTF, Priority)
FCFS_process_cpu(S, cpu_index) ==
    LET cur == S.cpu_queue[cpu_index] IN
    IF cur = None THEN S
    ELSE LET r == advance_burst(S.procs[cur]) IN
         IF r.done
         THEN route_from_cpu([S EXCEPT !.cpu_queue[cpu_index] = None], cur, r.proc)
         ELSE [S EXCEPT !.procs[cur] = r.proc]

DelKey(d, k) == [x \in DOMAIN d \ {k} |-> d[x]]

SetKey(d, k, v) == [x \in DOMAIN d \cup {k} |-> IF x = k THEN v ELSE d[x]]

\* RR_process_cpu with `quantum_remaining < 0` for `<= 0`
RR_process_cpu_late(S, cpu_index) ==
    LET cur == S.cpu_queue[cpu_index] IN
    IF cur = None THEN S
    ELSE LET qr == [S.quantum_remaining EXCEPT ![cpu_index] = @ - 1]
             r == advance_burst(S.procs[cur])
             quantum_expired == qr[cpu_index] < 0
         IN IF r.done
            THEN route_from_cpu([S EXCEPT !.cpu_queue[cpu_index] = None,
                                          !.quantum_remaining = DelKey(qr, cpu_index)],
                                cur, r.proc)
            ELSE IF quantum_expired
            THEN [S EXCEPT !.cpu_queue[cpu_index] = None,
                           !.quantum_remaining = DelKey(qr, cpu_index),
                           !.procs[cur] = [r.proc EXCEPT !.state = "ready"],
                           !.ready_queue = Append(@, cur),
                           !.preempt_log = @ \cup {<<S.clock, cur>>}]
            ELSE [S EXCEPT !.quantum_remaining = qr, !.procs[cur] = r.proc]

\* RR_process_cpu with the quantum test ahead of the completion test
RR_process_cpu_quantum_first(S, cpu_index) ==
    LET cur == S.cpu_queue[cpu_index] IN
    IF cur = None THEN S
    ELSE LET qr == [S.quantum_remaining EXCEPT ![cpu_index] = @ - 1]
             r == advance_burst(S.procs[cur])
             quantum_expired == qr[cpu_index] <= 0
         IN IF quantum_expired
            THEN [S EXCEPT !.cpu_queue[cpu_index] = None,
                           !.quantum_remaining = DelKey(qr, cpu_index),
                           !.procs[cur] = [r.proc EXCEPT !.state = "ready"],
                           !.ready_queue = Append(@, cur),
                           !.preempt_log = @ \cup {<<S.clock, cur>>}]
            ELSE IF r.done
            THEN route_from_cpu([S EXCEPT !.cpu_queue[cpu_index] = None,
                                          !.quantum_remaining = DelKey(qr, cpu_index)],
                                cur, r.proc)
            ELSE [S EXCEPT !.quantum_remaining = qr, !.procs[cur] = r.proc]

\* RR_process_cpu with `appendleft` for `append` on quantum expiry
RR_process_cpu_requeue_front(S, cpu_index) ==
    LET cur == S.cpu_queue[cpu_index] IN
    IF cur = None THEN S
    ELSE LET qr == [S.quantum_remaining EXCEPT ![cpu_index] = @ - 1]
             r == advance_burst(S.procs[cur])
             quantum_expired == qr[cpu_index] <= 0
         IN IF r.done
            THEN route_from_cpu([S EXCEPT !.cpu_queue[cpu_index] = None,
                                          !.quantum_remaining = DelKey(qr, cpu_index)],
                                cur, r.proc)
            ELSE IF quantum_expired
            THEN [S EXCEPT !.cpu_queue[cpu_index] = None,
                           !.quantum_remaining = DelKey(qr, cpu_index),
                           !.procs[cur] = [r.proc EXCEPT !.state = "ready"],
                           !.ready_queue = <<cur>> \o @,
                           !.preempt_log = @ \cup {<<S.clock, cur>>}]
            ELSE [S EXCEPT !.quantum_remaining = qr, !.procs[cur] = r.proc]

\* RR_process_cpu without `del self.quantum_remaining[cpu_index]` on completion
RR_process_cpu_keep_counter(S, cpu_index) ==
    LET cur == S.cpu_queue[cpu_index] IN
    IF cur = None THEN S
    ELSE LET qr == [S.quantum_remaining EXCEPT ![cpu_index] = @ - 1]
             r == advance_burst(S.procs[cur])
             quantum_expired == qr[cpu_index] <= 0
         IN IF r.done
            THEN route_from_cpu([S EXCEPT !.cpu_queue[cpu_index] = None,
                                          !.quantum_remaining = qr],
                                cur, r.proc)
            ELSE IF quantum_expired
            THEN [S EXCEPT !.cpu_queue[cpu_index] = None,
                           !.quantum_remaining = DelKey(qr, cpu_index),
                           !.procs[cur] = [r.proc EXCEPT !.state = "ready"],
                           !.ready_queue = Append(@, cur),
                           !.preempt_log = @ \cup {<<S.clock, cur>>}]
            ELSE [S EXCEPT !.quantum_remaining = qr, !.procs[cur] = r.proc]

\* RR_process_cpu without `current_process.state = "ready"` at a preemption
RR_process_cpu_keep_state(S, cpu_index) ==
    LET cur == S.cpu_queue[cpu_index] IN
    IF cur = None THEN S
    ELSE LET qr == [S.quantum_remaining EXCEPT ![cpu_index] = @ - 1]
             r == advance_burst(S.procs[cur])
             quantum_expired == qr[cpu_index] <= 0
         IN IF r.done
            THEN route_from_cpu([S EXCEPT !.cpu_queue[cpu_index] = None,
                                          !.quantum_remaining = DelKey(qr, cpu_index)],
                                cur, r.proc)
            ELSE IF quantum_expired
            THEN [S EXCEPT !.cpu_queue[cpu_index] = None,
                           !.quantum_remaining = DelKey(qr, cpu_index),
                           !.procs[cur] = r.proc,
                           !.ready_queue = Append(@, cur),
                           !.preempt_log = @ \cup {<<S.clock, cur>>}]
            ELSE [S EXCEPT !.quantum_remaining = qr, !.procs[cur] = r.proc]

\* one iteration of the for loop of RRScheduler._process_cpus
RR_process_cpu(S, cpu_index) ==
    LET cur == S.cpu_queue[cpu_index] IN
    IF cur = None THEN S
    ELSE LET qr == [S.quantum_remaining EXCEPT ![cpu_index] = @ - 1]
             r == advance_burst(S.procs[cur])
             quantum_expired == qr[cpu_index] <= 0
         IN IF r.done
            THEN route_from_cpu([S EXCEPT !.cpu_queue[cpu_index] = None,
                                          !.quantum_remaining = DelKey(qr, cpu_index)],
                                cur, r.proc)
            ELSE IF quantum_expired
            THEN [S EXCEPT !.cpu_queue[cpu_index] = None,
                           !.quantum_remaining = DelKey(qr, cpu_index),
                           !.procs[cur] = [r.proc EXCEPT !.state = "ready"],
                           !.ready_queue = Append(@, cur),
                           !.preempt_log = @ \cup {<<S.clock, cur>>}]
            ELSE [S EXCEPT !.quantum_remaining = qr, !.procs[cur] = r.proc]

\* Adaptive_process_cpu with the quantum test ahead of the completion test
Adaptive_process_cpu_quantum_first(S, cpu_index) ==
    LET cur == S.cpu_queue[cpu_index] IN
    IF cur = None THEN S
    ELSE LET has == cpu_index \in DOMAIN S.quantum_remaining
             qr == IF has THEN [S.quantum_remaining EXCEPT ![cpu_index] = @ - 1]
                   ELSE S.quantum_remaining
             p0 == [S.procs[cur] EXCEPT !.has_burst_history = TRUE]
             r == advance_burst(p0)
             quantum_expired == has /\ qr[cpu_index] <= 0
         IN IF quantum_expired
            THEN [S EXCEPT !.cpu_queue[cpu_index] = None,
                           !.quantum_remaining = DelKey(qr, cpu_index),
                           !.procs[cur] = [r.proc EXCEPT !.state = "ready"],
                           !.ready_queue = Append(@, cur),
                           !.preempt_log = @ \cup {<<S.clock, cur>>}]
            ELSE IF r.done
            THEN route_from_cpu([S EXCEPT !.cpu_queue[cpu_index] = None,
                                          !.quantum_remaining = DelKey(qr, cpu_index)],
                                cur, r.proc)
            ELSE [S EXCEPT !.quantum_remaining = qr, !.procs[cur] = r.proc]

\* one iteration of the for loop of AdaptiveScheduler._process_cpus
Adaptive_process_cpu(S, cpu_index) ==
    LET cur == S.cpu_queue[cpu_index] IN
    IF cur = None THEN S
    ELSE LET has == cpu_index \in DOMAIN S.quantum_remaining
             qr == IF has THEN [S.quantum_remaining EXCEPT ![cpu_index] = @ - 1]
                   ELSE S.quantum_remaining
             p0 == [S.procs[cur] EXCEPT !.has_burst_history = TRUE]
             r == advance_burst(p0)
             quantum_expired == has /\ qr[cpu_index] <= 0
         IN IF r.done
            THEN route_from_cpu([S EXCEPT !.cpu_queue[cpu_index] = None,
                                          !.quantum_remaining = DelKey(qr, cpu_index)],
                                cur, r.proc)
            ELSE IF quantum_expired
            THEN [S EXCEPT !.cpu_queue[cpu_index] = None,
                           !.quantum_remaining = DelKey(qr, cpu_index),
                           !.procs[cur] = [r.proc EXCEPT !.state = "ready"],
                           !.ready_queue = Append(@, cur),
                           !.preempt_log = @ \cup {<<S.clock, cur>>}]
            ELSE [S EXCEPT !.quantum_remaining = qr, !.procs[cur] = r.proc]

\* for cpu_index in range(self.num_cpus)
RECURSIVE process_cpus_from(_, _)
process_cpus_from(S, cpu_index) ==
    IF cpu_index > num_cpus THEN S
    ELSE process_cpus_from(
             IF policy = "RR" THEN RR_process_cpu(S, cpu_index)
             ELSE IF policy = "Adaptive" THEN Adaptive_process_cpu(S, cpu_index)
             ELSE FCFS_process_cpu(S, cpu_index),
             cpu_index + 1)

process_cpus(S) == process_cpus_from(S, 1)

\* process_io_device with a process that has bursts left sent to wait_queue
process_io_device_rewait(S, io_index) ==
    LET cur == S.io_queue[io_index] IN
    IF cur = None THEN S
    ELSE LET r == advance_burst(S.procs[cur])
             p1 == r.proc
             S1 == [S EXCEPT !.io_queue[io_index] = None]
         IN IF r.done
            THEN IF is_complete(p1)
                 THEN [S1 EXCEPT !.procs[cur] =
                                    [p1 EXCEPT !.state = "finished",
                                               !.end_time = S.clock,
                                               !.turnaround_time = S.clock - p1.arrival_time],
                                 !.finished = Append(@, cur)]
                 ELSE [S1 EXCEPT !.procs[cur] = [p1 EXCEPT !.state = "waiting"],
                                 !.wait_queue = Append(@, cur)]
            ELSE [S EXCEPT !.procs[cur] = p1]

\* one iteration of the for loop of _process_io_devices; SJF and Priority
\* re-sort the ready queue when a process returns from I/O
process_io_device(S, io_index) ==
    LET cur == S.io_queue[io_index] IN
    IF cur = None THEN S
    ELSE LET r == advance_burst(S.procs[cur])
             p1 == r.proc
             S1 == [S EXCEPT !.io_queue[io_index] = None]
         IN IF r.done
            THEN IF is_complete(p1)
                 THEN [S1 EXCEPT !.procs[cur] =
                                    [p1 EXCEPT !.state = "finished",
                                               !.end_time = S.clock,
                                               !.turnaround_time = S.clock - p1.arrival_time],
                                 !.finished = Append(@, cur)]
                 ELSE LET S2 == [S1 EXCEPT !.procs[cur] = [p1 EXCEPT !.state = "ready"],
                                           !.ready_queue = Append(@, cur)]
                      IN IF policy = "SJF" THEN SJF_sort_ready_queue(S2)
                         ELSE IF policy = "Priority" THEN Priority_sort_ready_queue(S2)
                         ELSE S2
            ELSE [S EXCEPT !.procs[cur] = p1]

RECURSIVE process_io_devices_from(_, _)
process_io_devices_from(S, io_index) ==
    IF io_index > num_ios THEN S
    ELSE process_io_devices_from(process_io_device(S, io_index), io_index + 1)

process_io_devices(S) == process_io_devices_from(S, 1)

\* ---------------------------------------------------------- _check_preemption
\* SRTF_preempt_cpu without `self.cpu_queue[cpu_index] = None`
SRTF_preempt_cpu_keep_slot(S, cpu_index) ==
    LET cur == S.cpu_queue[cpu_index] IN
    IF cur # None /\ S.ready_queue # <<>>
    THEN IF get_remaining_burst_time(S.procs[Head(S.ready_queue)])
               < get_remaining_burst_time(S.procs[cur])
         THEN [S EXCEPT !.procs[cur].state = "ready",
                        !.ready_queue = Append(@, cur),
                        !.preempt_log = @ \cup {<<S.clock, cur>>}]
         ELSE S
    ELSE S

\* SRTF_preempt_cpu with `<=` for `<`
SRTF_preempt_cpu_on_equal(S, cpu_index) ==
    LET cur == S.cpu_queue[cpu_index] IN
    IF cur # None /\ S.ready_queue # <<>>
    THEN IF get_remaining_burst_time(S.procs[Head(S.ready_queue)])
               <= get_remaining_burst_time(S.procs[cur])
         THEN [S EXCEPT !.procs[cur].state = "ready",
                        !.ready_queue = Append(@, cur),
                        !.cpu_queue[cpu_index] = None,
                        !.preempt_log = @ \cup {<<S.clock, cur>>}]
         ELSE S
    ELSE S

\* SRTF_preempt_cpu with the comparison the wrong way round
SRTF_preempt_cpu_reversed(S, cpu_index) ==
    LET cur == S.cpu_queue[cpu_index] IN
    IF cur # None /\ S.ready_queue # <<>>
    THEN IF get_remaining_burst_time(S.procs[Head(S.ready_queue)])
               > get_remaining_burst_time(S.procs[cur])
         THEN [S EXCEPT !.procs[cur].state = "ready",
                        !.ready_queue = Append(@, cur),
                        !.cpu_queue[cpu_index] = None,
                        !.preempt_log = @ \cup {<<S.clock, cur>>}]
         ELSE S
    ELSE S

\* one iteration of the for loop of SRTFScheduler._check_preemption
SRTF_preempt_cpu(S, cpu_index) ==
    LET cur == S.cpu_queue[cpu_index] IN
    IF cur # None /\ S.ready_queue # <<>>
    THEN LET current_remaining == get_remaining_burst_time(S.procs[cur])
             shortest_ready_remaining ==
                 get_remaining_burst_time(S.procs[Head(S.ready_queue)])
         IN IF shortest_ready_remaining < current_remaining
            THEN [S EXCEPT !.procs[cur].state = "ready",
                           !.ready_queue = Append(@, cur),
                           !.cpu_queue[cpu_index] = None,
                           !.preempt_log = @ \cup {<<S.clock, cur>>}]
            ELSE S
    ELSE S

\* Priority_preempt_cpu with `<=` for `<`
Priority_preempt_cpu_on_equal(S, cpu_index) ==
    LET cur == S.cpu_queue[cpu_index] IN
    IF cur # None /\ S.ready_queue # <<>>
    THEN IF S.procs[Head(S.ready_queue)].priority <= S.procs[cur].priority
         THEN Priority_sort_ready_queue(
                  [S EXCEPT !.procs[cur].state = "ready",
                            !.ready_queue = Append(@, cur),
                            !.cpu_queue[cpu_index] = None,
                            !.preempt_log = @ \cup {<<S.clock, cur>>}])
         ELSE S
    ELSE S

\* one iteration of the for loop of PriorityScheduler._check_preemption
Priority_preempt_cpu(S, cpu_index) ==
    LET cur == S.cpu_queue[cpu_index] IN
    IF cur # None /\ S.ready_queue # <<>>
    THEN IF S.procs[Head(S.ready_queue)].priority < S.procs[cur].priority
         THEN Priority_sort_ready_queue(
                  [S EXCEPT !.procs[cur].state = "ready",
                            !.ready_queue = Append(@, cur),
                            !.cpu_queue[cpu_index] = None,
                            !.preempt_log = @ \cup {<<S.clock, cur>>}])
         ELSE S
    ELSE S

RECURSIVE preempt_from(_, _)
preempt_from(S, cpu_index) ==
    IF cpu_index > num_cpus THEN S
    ELSE preempt_from(IF policy = "SRTF" THEN SRTF_preempt_cpu(S, cpu_index)
                      ELSE Priority_preempt_cpu(S, cpu_index),
                      cpu_index + 1)

SRTF_check_preemption(S) ==
    IF S.ready_queue = <<>> THEN S
    ELSE preempt_from(SRTF_sort_ready_queue(S), 1)

Priority_check_preemption(S) ==
    IF ~preemptive \/ S.ready_queue = <<>> THEN S
    ELSE preempt_from(Priority_sort_ready_queue(S), 1)

\* ------------------------------------------------------------ _adapt_quantum
RECURSIVE SumSeq(_)
SumSeq(s) == IF s = <<>> THEN 0 ELSE Head(s) + SumSeq(Tail(s))

HistoryLen == 10

adapt_quantum(S) ==
    LET load == Len(S.ready_queue) + Occupied(S.cpu_queue)
        h1 == Append(S.load_history, load)
        h == IF Len(h1) > HistoryLen THEN Tail(h1) ELSE h1
        \* avg_load = sum / len, compared without division
        total == SumSeq(h)
        n == Len(h)
    IN [S EXCEPT !.load_history = h,
                 !.current_quantum =
                     IF total > 5 * n
                     THEN IF quantum - 2 > 2 THEN quantum - 2 ELSE 2
                     ELSE IF total < 2 * n THEN quantum + 2
                     ELSE quantum]

\* ------------------------------------------------------------ _dispatch_to_cpus
\* assign_cpu without the hasattr guard: the first-dispatch time is written
\* at every dispatch
assign_cpu_overwrite(S, process) ==
    LET cpu_index == FirstFree(S.cpu_queue)
        S1 == [S EXCEPT !.procs[process].state = "running",
                        !.procs[process].first_run_time = S.clock,
                        !.cpu_queue[cpu_index] = process,
                        !.dispatch_log = @ \cup {<<S.clock, process>>}]
    IN IF policy = "RR"
       THEN [S1 EXCEPT !.quantum_remaining = SetKey(@, cpu_index, quantum)]
       ELSE IF policy = "Adaptive"
       THEN [S1 EXCEPT !.quantum_remaining = SetKey(@, cpu_index, S.current_quantum)]
       ELSE S1

\* the body of `if process.state == "ready"`: the first free CPU takes the process
assign_cpu(S, process) ==
    LET cpu_index == FirstFree(S.cpu_queue)
        S1 == [S EXCEPT !.procs[process].state = "running",
                        !.procs[process].first_run_time =
                            IF @ = NoTime THEN S.clock ELSE @,
                        !.cpu_queue[cpu_index] = process,
                        !.dispatch_log = @ \cup {<<S.clock, process>>}]
    IN IF policy = "RR"
       THEN [S1 EXCEPT !.quantum_remaining = SetKey(@, cpu_index, quantum)]
       ELSE IF policy = "Adaptive"
       THEN [S1 EXCEPT !.quantum_remaining = SetKey(@, cpu_index, S.current_quantum)]
       ELSE S1

\* dispatch_cpu_loop with `pop()` for `popleft()`
RECURSIVE dispatch_cpu_loop_lifo(_)
dispatch_cpu_loop_lifo(S) ==
    IF Occupied(S.cpu_queue) < num_cpus /\ S.ready_queue # <<>>
    THEN LET process == S.ready_queue[Len(S.ready_queue)]
             S1 == [S EXCEPT !.ready_queue = SubSeq(@, 1, Len(@) - 1)]
         IN dispatch_cpu_loop_lifo(IF S1.procs[process].state = "ready"
                                   THEN assign_cpu(S1, process)
                                   ELSE S1)
    ELSE S

\* the while loop of _dispatch_to_cpus: a popped process whose state is not
\* "ready" is dropped
RECURSIVE dispatch_cpu_loop(_)
dispatch_cpu_loop(S) ==
    IF Occupied(S.cpu_queue) < num_cpus /\ S.ready_queue # <<>>
    THEN LET process == Head(S.ready_queue)
             S1 == [S EXCEPT !.ready_queue = Tail(@)]
         IN dispatch_cpu_loop(IF S1.procs[process].state = "ready"
                              THEN assign_cpu(S1, process)
                              ELSE S1)
    ELSE S

\* SRTF, Priority and Adaptive sort the ready queue before the loop
dispatch_to_cpus(S) ==
    dispatch_cpu_loop(IF policy = "SRTF" THEN SRTF_sort_ready_queue(S)
                      ELSE IF policy = "Priority" THEN Priority_sort_ready_queue(S)
                      ELSE IF policy = "Adaptive" THEN Adaptive_sort_ready_queue(S)
                      ELSE S)

\* ------------------------------------------------------ _dispatch_to_io_devices
\* dispatch_to_io_devices with `if` for `while`
dispatch_to_io_devices_single(S) ==
    IF Occupied(S.io_queue) < num_ios /\ S.wait_queue # <<>>
    THEN LET process == Head(S.wait_queue)
             S1 == [S EXCEPT !.wait_queue = Tail(@)]
         IN IF S1.procs[process].state = "waiting"
            THEN [S1 EXCEPT !.procs[process].state = "io_waiting",
                            !.io_queue[FirstFree(S1.io_queue)] = process]
            ELSE S1
    ELSE S

\* dispatch_to_io_devices with `pop()` for `popleft()`
RECURSIVE dispatch_to_io_devices_lifo(_)
dispatch_to_io_devices_lifo(S) ==
    IF Occupied(S.io_queue) < num_ios /\ S.wait_queue # <<>>
    THEN LET process == S.wait_queue[Len(S.wait_queue)]
             S1 == [S EXCEPT !.wait_queue = SubSeq(@, 1, Len(@) - 1)]
         IN dispatch_to_io_devices_lifo(
                IF S1.procs[process].state = "waiting"
                THEN [S1 EXCEPT !.procs[process].state = "io_waiting",
                                !.io_queue[FirstFree(S1.io_queue)] = process]
                ELSE S1)
    ELSE S

RECURSIVE dispatch_to_io_devices(_)
dispatch_to_io_devices(S) ==
    IF Occupied(S.io_queue) < num_ios /\ S.wait_queue # <<>>
    THEN LET process == Head(S.wait_queue)
             S1 == [S EXCEPT !.wait_queue = Tail(@)]
         IN dispatch_to_io_devices(
                IF S1.procs[process].state = "waiting"
                THEN [S1 EXCEPT !.procs[process].state = "io_waiting",
                                !.io_queue[FirstFree(S1.io_queue)] = process]
                ELSE S1)
    ELSE S

\* tick with wait_time += 1 for the processes on a CPU as well
tick_running(S) ==
    [S EXCEPT !.clock = @ + 1,
              !.procs = [o \in DOMAIN @ |->
                            IF \/ \E i \in DOMAIN S.ready_queue : S.ready_queue[i] = o
                               \/ \E i \in DOMAIN S.cpu_queue : S.cpu_queue[i] = o
                            THEN [@[o] EXCEPT !.wait_time = @ + 1]
                            ELSE @[o]]]

\* tick with the clock kept in a counter that all scheduler objects share
tick_shared_clock(S) ==
    [S EXCEPT !.clock = clock + 1,
              !.procs = [o \in DOMAIN @ |->
                            IF \E i \in DOMAIN S.ready_queue : S.ready_queue[i] = o
                            THEN [@[o] EXCEPT !.wait_time = @ + 1]
                            ELSE @[o]]]

\* ------------------------------------------------------------------- step
\* self.clock += 1, then wait_time += 1 for every process in ready_queue
tick(S) ==
    [S EXCEPT !.clock = @ + 1,
              !.procs = [o \in DOMAIN @ |->
                            IF \E i \in DOMAIN S.ready_queue : S.ready_queue[i] = o
                            THEN [@[o] EXCEPT !.wait_time = @ + 1]
                            ELSE @[o]]]

\* before_cpus with the Priority check run whatever `preemptive` is
before_cpus_preempting(S) ==
    IF policy = "SRTF" THEN SRTF_check_preemption(S)
    ELSE IF policy = "Priority"
    THEN (IF S.ready_queue = <<>> THEN S
          ELSE preempt_from(Priority_sort_ready_queue(S), 1))
    ELSE IF policy = "Adaptive" THEN adapt_quantum(S)
    ELSE S

\* the phases between _check_arrivals and _process_cpus, per policy
before_cpus(S) ==
    IF policy = "SRTF" THEN SRTF_check_preemption(S)
    ELSE IF policy = "Priority" /\ preemptive THEN Priority_check_preemption(S)
    ELSE IF policy = "Adaptive" THEN adapt_quantum(S)
    ELSE S

\* step with _check_arrivals called after the dispatch
step_admit_last(S) ==
    tick(dispatch_to_io_devices(check_arrivals(dispatch_to_cpus(process_io_devices(
         process_cpus(before_cpus(S)))))))

step(S) ==
    tick(dispatch_to_io_devices(dispatch_to_cpus(process_io_devices(
         process_cpus(before_cpus(check_arrivals(S)))))))

\* has_jobs without the test of not_arrived
has_jobs_started ==
    \/ Len(ready_queue) > 0
    \/ Len(wait_queue) > 0
    \/ \E i \in DOMAIN cpu_queue : cpu_queue[i] # None
    \/ \E i \in DOMAIN io_queue : io_queue[i] # None

has_jobs ==
    \/ Len(not_arrived) > 0
    \/ Len(ready_queue) > 0
    \/ Len(wait_queue) > 0
    \/ \E i \in DOMAIN cpu_queue : cpu_queue[i] # None
    \/ \E i \in DOMAIN io_queue : io_queue[i] # None

\* ---------------------------------------------------------------- snapshot
\* [process.pid for process in q]; an empty slot gives None
pids(S, q) == [i \in DOMAIN q |-> IF q[i] = None THEN None ELSE S.procs[q[i]].pid]

\* snapshot that takes the ready processes off the queue as it lists them
snapshot_draining(S) ==
    [sched |-> [S EXCEPT !.ready_queue = <<>>],
     result |-> [clock |-> S.clock,
                 not_arrived |-> pids(S, S.not_arrived),
                 ready |-> pids(S, S.ready_queue),
                 wait |-> pids(S, S.wait_queue),
                 cpu |-> pids(S, S.cpu_queue),
                 io |-> pids(S, S.io_queue),
                 finished |-> pids(S, S.finished),
                 extra |-> <<>>]]

\* snapshot(): the scheduler after the call and the dictionary returned; the
\* RR, Priority and Adaptive schedulers add one entry of their own
snapshot(S) ==
    [sched |-> S,
     result |-> [clock |-> S.clock,
                 not_arrived |-> pids(S, S.not_arrived),
                 ready |-> pids(S, S.ready_queue),
                 wait |-> pids(S, S.wait_queue),
                 cpu |-> pids(S, S.cpu_queue),
                 io |-> pids(S, S.io_queue),
                 finished |-> pids(S, S.finished),
                 extra |-> IF policy = "RR" THEN <<"quantum", quantum>>
                           ELSE IF policy = "Priority" THEN <<"preemptive", preemptive>>
                           ELSE IF policy = "Adaptive"
                           THEN <<"current_quantum", S.current_quantum>>
                           ELSE <<>>]]

\* ------------------------------------------------- src/A02/scheduler.py
\* The standalone Round Robin simulation: Job objects in the heap `heap` of
\* the scheduler record, the lists jobs, ready, wait, cpu, io and terminated
\* holding references to them.  A burst is the tuple <<type, duration>>.
Job(job_id, arrival_time, bursts) ==
    [id |-> job_id, arrival_time |-> arrival_time, bursts |-> bursts,
     current_burst |-> 0, time_in_burst |-> 0, state |-> "NEW",
     first_start_time |-> NoTime, completion_time |-> NoTime]

\* <<burst>>, or <<>> for None
get_current_burst(job) ==
    IF job.current_burst < Len(job.bursts)
    THEN <<job.bursts[job.current_burst + 1]>>
    ELSE <<>>

\* Job.advance_burst: the job after the call, and the value returned
Job_advance_burst(job) ==
    LET j1 == [job EXCEPT !.time_in_burst = @ + 1]
        burst == get_current_burst(j1)
    IN IF burst # <<>> /\ j1.time_in_burst >= burst[1][2]
       THEN [job |-> [j1 EXCEPT !.current_burst = @ + 1, !.time_in_burst = 0],
             done |-> TRUE]
       ELSE [job |-> j1, done |-> FALSE]

Job_is_complete(job) == job.current_burst >= Len(job.bursts)

\* list.remove(x): the list without the first occurrence of x
remove(q, x) ==
    LET i == CHOOSE k \in DOMAIN q : q[k] = x /\ \A m \in 1 .. k - 1 : q[m] # x
    IN SubSeq(q, 1, i - 1) \o SubSeq(q, i + 1, Len(q))

\* Scheduler(jobs, cpu_max, io_max, quantum), jobs the sequence of Job objects
Scheduler(jobs) ==
    [heap |-> jobs,
     jobs |-> SortedBy([i \in 1 .. Len(jobs) |-> i],
                       [i \in 1 .. Len(jobs) |-> <<jobs[i].arrival_time, 0>>]),
     clock |-> 0, quantum |-> quantum, cpu_max |-> num_cpus, io_max |-> num_ios,
     ready |-> <<>>, wait |-> <<>>, cpu |-> <<>>, io |-> <<>>, terminated |-> <<>>,
     cpu_quantum_remaining |-> <<>>]

\* the loop of Scheduler._check_arrivals over the copy jobs[:]
RECURSIVE Scheduler_check_arrivals_over(_, _)
Scheduler_check_arrivals_over(J, copy) ==
    IF copy = <<>> THEN J
    ELSE LET job == Head(copy)
         IN Scheduler_check_arrivals_over(
                IF J.heap[job].arrival_time = J.clock /\ J.heap[job].state = "NEW"
                THEN [J EXCEPT !.heap[job].state = "READY",
                               !.ready = Append(@, job),
                               !.jobs = remove(@, job)]
                ELSE J,
                Tail(copy))

Scheduler_check_arrivals(J) == Scheduler_check_arrivals_over(J, J.jobs)

\* the loop of Scheduler._process_cpu over the copy cpu[:]
RECURSIVE Scheduler_process_cpu_over(_, _)
Scheduler_process_cpu_over(J, copy) ==
    IF copy = <<>> THEN J
    ELSE LET job == Head(copy)
             r == Job_advance_burst(J.heap[job])
             burst_done == r.done
             counted == job \in DOMAIN J.cpu_quantum_remaining
             J1 == [J EXCEPT !.heap[job] = r.job,
                             !.cpu_quantum_remaining =
                                 IF counted THEN SetKey(@, job, @[job] - 1) ELSE @]
         IN Scheduler_process_cpu_over(
                IF counted /\ J1.cpu_quantum_remaining[job] <= 0 /\ ~burst_done
                THEN [J1 EXCEPT !.heap[job].state = "READY",
                                !.cpu = remove(@, job),
                                !.ready = Append(@, job),
                                !.cpu_quantum_remaining = DelKey(@, job)]
                ELSE IF burst_done
                THEN LET J2 == [J1 EXCEPT !.cpu = remove(@, job),
                                          !.cpu_quantum_remaining =
                                              IF counted THEN DelKey(@, job) ELSE @]
                     IN IF Job_is_complete(r.job)
                        THEN [J2 EXCEPT !.heap[job].state = "TERMINATED",
                                        !.heap[job].completion_time = J.clock,
                                        !.terminated = Append(@, job)]
                        ELSE [J2 EXCEPT !.heap[job].state = "WAITING",
                                        !.wait = Append(@, job)]
                ELSE J1,
                Tail(copy))

Scheduler_process_cpu(J) == Scheduler_process_cpu_over(J, J.cpu)

\* the loop of Scheduler._process_io over the copy io[:]
RECURSIVE Scheduler_process_io_over(_, _)
Scheduler_process_io_over(J, copy) ==
    IF copy = <<>> THEN J
    ELSE LET job == Head(copy)
             r == Job_advance_burst(J.heap[job])
             J1 == [J EXCEPT !.heap[job] = r.job]
         IN Scheduler_process_io_over(
                IF r.done
                THEN LET J2 == [J1 EXCEPT !.io = remove(@, job)]
                     IN IF Job_is_complete(r.job)
                        THEN [J2 EXCEPT !.heap[job].state = "TERMINATED",
                                        !.heap[job].completion_time = J.clock,
                                        !.terminated = Append(@, job)]
                        ELSE [J2 EXCEPT !.heap[job].state = "READY",
                                        !.ready = Append(@, job)]
                ELSE J1,
                Tail(copy))

Scheduler_process_io(J) == Scheduler_process_io_over(J, J.io)

\* Scheduler._load_cpu
RECURSIVE Scheduler_load_cpu(_)
Scheduler_load_cpu(J) ==
    IF Len(J.cpu) < J.cpu_max /\ J.ready # <<>>
    THEN LET job == Head(J.ready)
         IN Scheduler_load_cpu(
                [J EXCEPT !.ready = Tail(@),
                          !.heap[job].first_start_time =
                              IF @ = NoTime THEN J.clock ELSE @,
                          !.heap[job].state = "RUNNING",
                          !.cpu = Append(@, job),
                          !.cpu_quantum_remaining = SetKey(@, job, J.quantum)])
    ELSE J

\* Scheduler._load_io
RECURSIVE Scheduler_load_io(_)
Scheduler_load_io(J) ==
    IF Len(J.io) < J.io_max /\ J.wait # <<>>
    THEN LET job == Head(J.wait)
         IN Scheduler_load_io([J EXCEPT !.wait = Tail(@),
                                        !.heap[job].state = "WAITING",
                                        !.io = Append(@, job)])
    ELSE J

\* Scheduler.step
Scheduler_step(J) ==
    LET J5 == Scheduler_load_io(Scheduler_load_cpu(Scheduler_process_io(
                  Scheduler_process_cpu(Scheduler_check_arrivals(J)))))
    IN [J5 EXCEPT !.clock = @ + 1]

\* ------------------------------------------------------------------ inputs
Durs == 1 .. MaxDur

\* burst lists of the general workload: CPU and I/O alternating from a CPU
\* burst, and lists that start with I/O or repeat a kind
BurstLists ==
    {<<cpu(a)>> : a \in Durs}
    \cup {<<cpu(a), io(b)>> : a \in Durs, b \in Durs}
    \cup {<<cpu(a), io(1), cpu(1)>> : a \in Durs}
    \cup {<<io(1), cpu(1)>>, <<cpu(1), cpu(1)>>}

Priorities == IF policy = "Priority" THEN {1, 2} ELSE {0}

Descriptors ==
    [bursts : BurstLists, priority : Priorities, arrival_time : 0 .. MaxArrival]

\* every run of the general workload is over by this tick unless it is stuck
MaxClock == MaxAddClock + MaxArrival + MaxProcs * (3 * MaxDur + 2) + 2

\* ------------------------------------------------------------------- Init
\* the scheduler object as __init__ leaves it
NewScheduler ==
    [procs |-> <<>>, not_arrived |-> <<>>, ready_queue |-> <<>>,
     wait_queue |-> <<>>, cpu_queue |-> [i \in 1 .. num_cpus |-> None],
     io_queue |-> [i \in 1 .. num_ios |-> None],
     finished |-> <<>>, quantum_remaining |-> <<>>,
     current_quantum |-> quantum, load_history |-> <<>>,
     clock |-> 0, dispatch_log |-> {}, preempt_log |-> {}]

InitScheduler ==
    /\ procs = <<>>
    /\ not_arrived = <<>>
    /\ ready_queue = <<>>
    /\ wait_queue = <<>>
    /\ cpu_queue = [i \in 1 .. num_cpus |-> None]
    /\ io_queue = [i \in 1 .. num_ios |-> None]
    /\ finished = <<>>
    /\ quantum_remaining = <<>>
    /\ current_quantum = quantum
    /\ load_history = <<>>
    /\ clock = 0
    /\ dispatch_log = {}
    /\ preempt_log = {}
    /\ add_log = <<>>
    /\ last_snapshot = <<>>
    /\ twin = NewScheduler
    /\ twin_lag = <<>>
    /\ standalone = Scheduler(<<>>)

Init ==
    /\ policy \in Policies
    /\ num_cpus \in 1 .. MaxCpus
    /\ num_ios \in 0 .. MaxIos
    /\ quantum \in (IF policy \in {"RR", "Adaptive"} THEN 1 .. MaxQuantum ELSE {0})
    /\ preemptive \in (IF policy = "Priority" THEN BOOLEAN ELSE {FALSE})
    /\ InitScheduler

\* ---------------------------------------------------------------- actions
Install(S) ==
    /\ procs' = S.procs
    /\ not_arrived' = S.not_arrived
    /\ ready_queue' = S.ready_queue
    /\ wait_queue' = S.wait_queue
    /\ cpu_queue' = S.cpu_queue
    /\ io_queue' = S.io_queue
    /\ finished' = S.finished
    /\ quantum_remaining' = S.quantum_remaining
    /\ current_quantum' = S.current_quantum
    /\ load_history' = S.load_history
    /\ clock' = S.clock
    /\ dispatch_log' = S.dispatch_log
    /\ preempt_log' = S.preempt_log
    /\ UNCHANGED <<policy, num_cpus, num_ios, quantum, preemptive>>

\* scheduler.add_process(process)
Add(process) ==
    /\ Install(add_process(Sched, process))
    /\ add_log' = Append(add_log, clock)
    /\ last_snapshot' = <<>>

\* scheduler.add_process(Process(pid, bursts, priority, arrival_time)), the
\* pids distinct as the loader of main.py reads them
AddProcess ==
    /\ Len(procs) < MaxProcs
    /\ clock <= MaxAddClock
    /\ \E d \in Descriptors :
          Add(Process(Len(procs) + 1, d.bursts, d.priority, d.arrival_time))
    /\ UNCHANGED <<twin, twin_lag, standalone>>

\* scheduler.step(), called while clock < cap
StepUpTo(cap) ==
    /\ clock < cap
    /\ Install(step(Sched))
    /\ last_snapshot' = <<>>
    /\ UNCHANGED add_log

Step == StepUpTo(MaxClock) /\ UNCHANGED <<twin, twin_lag, standalone>>

Next == AddProcess \/ Step

Spec == Init /\ [][Next]_vars

\* ------------------------------------------------- the scenario workloads
\* Single-CPU-burst processes with the durations and arrival times of the
\* scenarios of spec section 8, all added before the first step, on one CPU.
ScenarioMaxClock == 24

ScenarioDescriptors ==
    [bursts : {<<cpu(d)>> : d \in {2, 3, 5, 8}}, priority : {0}, arrival_time : {0, 2}]

InitScenario ==
    /\ policy \in Policies
    /\ num_cpus = 1
    /\ num_ios \in {0, 1}
    /\ quantum \in (IF policy \in {"RR", "Adaptive"} THEN {2} ELSE {0})
    /\ preemptive \in (IF policy = "Priority" THEN BOOLEAN ELSE {FALSE})
    /\ InitScheduler

AddScenarioProcess ==
    /\ Len(procs) < 2
    /\ clock = 0
    /\ \E d \in ScenarioDescriptors :
          Add(Process(Len(procs) + 1, d.bursts, d.priority, d.arrival_time))
    /\ UNCHANGED <<twin, twin_lag, standalone>>

ScenarioStep == StepUpTo(ScenarioMaxClock) /\ UNCHANGED <<twin, twin_lag, standalone>>

NextScenario == AddScenarioProcess \/ ScenarioStep

SpecScenario == InitScenario /\ [][NextScenario]_vars

\* ------------------------------------------------- the Priority workloads
\* Up to MaxProcs + 1 processes under the Priority policy, added at any
\* clock up to MaxAddClock + 1 (so also after their arrival_time has passed).
PriorityDescriptors ==
    [bursts : {<<cpu(1)>>, <<cpu(2)>>, <<cpu(1), io(1)>>},
     priority : {1, 2}, arrival_time : 0 .. MaxArrival]

InitPriority ==
    /\ policy = "Priority"
    /\ num_cpus \in 1 .. MaxCpus
    /\ num_ios = 1
    /\ quantum = 0
    /\ preemptive \in BOOLEAN
    /\ InitScheduler

AddPriorityProcess ==
    /\ Len(procs) < MaxProcs + 1
    /\ clock <= MaxAddClock + 1
    /\ \E d \in PriorityDescriptors :
          Add(Process(Len(procs) + 1, d.bursts, d.priority, d.arrival_time))
    /\ UNCHANGED <<twin, twin_lag, standalone>>

NextPriority == AddPriorityProcess \/ Step

SpecPriority == InitPriority /\ [][NextPriority]_vars

\* ------------------------------------------------- unvalidated descriptors
\* add_process called with whatever the caller passes: an empty burst list,
\* a duration that is not positive, a pid already in use.
AnyBurstLists ==
    {<<>>, <<cpu(0)>>, <<cpu(-1)>>, <<cpu(1)>>, <<cpu(1), io(0)>>, <<cpu(2), io(1)>>}

AddAnyProcess ==
    /\ Len(procs) < MaxProcs
    /\ clock <= MaxAddClock
    /\ \E pid \in 1 .. MaxProcs, b \in AnyBurstLists, a \in 0 .. MaxArrival :
          Add(Process(pid, b, 0, a))
    /\ UNCHANGED <<twin, twin_lag, standalone>>

NextAny == AddAnyProcess \/ Step

SpecAny == Init /\ [][NextAny]_vars

\* ------------------------------------------------- snapshot() between calls
\* The scenario workloads with snapshot() called at any point.
Snapshot ==
    /\ Install(snapshot(Sched).sched)
    /\ last_snapshot' = <<snapshot(Sched).result>>
    /\ UNCHANGED <<add_log, twin, twin_lag, standalone>>

NextSnapshot == AddScenarioProcess \/ ScenarioStep \/ Snapshot

SpecSnapshot == InitScenario /\ [][NextSnapshot]_vars

\* ------------------------------------------------- two runs of the same calls
\* A second scheduler object of the same class and constructor arguments
\* (twin) is given the calls of the first, in the same order, at most MaxLag
\* calls behind it.  twin_lag holds the calls it has still to make: <<p>> is
\* add_process(p), <<>> is step().
MaxLag == 1

LockstepMaxClock == 12

LockstepAdd ==
    /\ Len(twin_lag) < MaxLag
    /\ Len(procs) < MaxProcs
    /\ clock <= MaxAddClock
    /\ \E d \in Descriptors :
          LET process == Process(Len(procs) + 1, d.bursts, d.priority, d.arrival_time)
          IN /\ Add(process)
             /\ twin_lag' = Append(twin_lag, <<process>>)
    /\ UNCHANGED <<twin, standalone>>

LockstepStep ==
    /\ Len(twin_lag) < MaxLag
    /\ StepUpTo(LockstepMaxClock)
    /\ twin_lag' = Append(twin_lag, <<>>)
    /\ UNCHANGED <<twin, standalone>>

TwinCall ==
    /\ twin_lag # <<>>
    /\ twin' = IF Head(twin_lag) = <<>> THEN step(twin)
               ELSE add_process(twin, Head(twin_lag)[1])
    /\ twin_lag' = Tail(twin_lag)
    /\ UNCHANGED <<policy, num_cpus, num_ios, quantum, preemptive, procs, not_arrived,
                   ready_queue, wait_queue, cpu_queue, io_queue, finished,
                   quantum_remaining, current_quantum, load_history, clock,
                   dispatch_log, preempt_log, add_log, last_snapshot, standalone>>

NextLockstep == LockstepAdd \/ LockstepStep \/ TwinCall

InitLockstep ==
    /\ policy \in Policies
    /\ num_cpus \in 1 .. MaxCpus
    /\ num_ios = 1
    /\ quantum \in (IF policy \in {"RR", "Adaptive"} THEN 1 .. MaxQuantum ELSE {0})
    /\ preemptive \in (IF policy = "Priority" THEN BOOLEAN ELSE {FALSE})
    /\ InitScheduler

SpecLockstep == InitLockstep /\ [][NextLockstep]_vars

\* ------------------------------------------------- shortest-job workloads
\* Up to ShortestProcs processes under SJF or SRTF, all added before the
\* first step, with CPU bursts of 1 .. ShortestDur ticks and arrival times
\* 0 .. ShortestArrival.
ShortestProcs == 3

ShortestDur == 3

ShortestArrival == 2

ShortestMaxClock == 16

ShortestDescriptors ==
    [bursts : {<<cpu(a)>> : a \in 1 .. ShortestDur} \cup {<<cpu(1), io(1), cpu(1)>>},
     priority : {0}, arrival_time : 0 .. ShortestArrival]

InitShortest ==
    /\ policy \in {"SJF", "SRTF"}
    /\ num_cpus \in 1 .. MaxCpus
    /\ num_ios = 1
    /\ quantum = 0
    /\ preemptive = FALSE
    /\ InitScheduler

AddShortestProcess ==
    /\ Len(procs) < ShortestProcs
    /\ clock = 0
    /\ \E d \in ShortestDescriptors :
          Add(Process(Len(procs) + 1, d.bursts, d.priority, d.arrival_time))
    /\ UNCHANGED <<twin, twin_lag, standalone>>

ShortestStep == StepUpTo(ShortestMaxClock) /\ UNCHANGED <<twin, twin_lag, standalone>>

NextShortest == AddShortestProcess \/ ShortestStep

SpecShortest == InitShortest /\ [][NextShortest]_vars

\* ------------------------------------------------- time-sliced workloads
\* Up to QuantumProcs processes under Round Robin or Adaptive, all added
\* before the first step, with CPU bursts longer than the quantum.
QuantumProcs == 3

QuantumDur == 3

QuantumMaxClock == 20

QuantumDescriptors ==
    [bursts : {<<cpu(a)>> : a \in 1 .. QuantumDur} \cup {<<cpu(QuantumDur), io(1), cpu(1)>>},
     priority : {0}, arrival_time : 0 .. MaxArrival]

InitQuantum ==
    /\ policy \in {"RR", "Adaptive"}
    /\ num_cpus \in 1 .. MaxCpus
    /\ num_ios = 1
    /\ quantum \in 1 .. MaxQuantum
    /\ preemptive = FALSE
    /\ InitScheduler

AddQuantumProcess ==
    /\ Len(procs) < QuantumProcs
    /\ clock = 0
    /\ \E d \in QuantumDescriptors :
          Add(Process(Len(procs) + 1, d.bursts, d.priority, d.arrival_time))
    /\ UNCHANGED <<twin, twin_lag, standalone>>

QuantumStep == StepUpTo(QuantumMaxClock) /\ UNCHANGED <<twin, twin_lag, standalone>>

NextQuantum == AddQuantumProcess \/ QuantumStep

SpecQuantum == InitQuantum /\ [][NextQuantum]_vars

\* ------------------------------------------------- late additions
\* Every policy, with add_process called at any clock up to MaxAddClock + 1,
\* so also after a process of later arrival_time has been admitted.
LateDescriptors ==
    [bursts : {<<cpu(1)>>, <<cpu(2)>>, <<cpu(1), io(1)>>},
     priority : Priorities, arrival_time : 0 .. MaxArrival]

AddLateProcess ==
    /\ Len(procs) < MaxProcs + 1
    /\ clock <= MaxAddClock + 1
    /\ \E d \in LateDescriptors :
          Add(Process(Len(procs) + 1, d.bursts, d.priority, d.arrival_time))
    /\ UNCHANGED <<twin, twin_lag, standalone>>

LateMaxClock == 8

InitLate ==
    /\ policy \in Policies
    /\ num_cpus \in 1 .. MaxCpus
    /\ num_ios = 1
    /\ quantum \in (IF policy \in {"RR", "Adaptive"} THEN {1} ELSE {0})
    /\ preemptive \in (IF policy = "Priority" THEN BOOLEAN ELSE {FALSE})
    /\ InitScheduler

LateStep == StepUpTo(LateMaxClock) /\ UNCHANGED <<twin, twin_lag, standalone>>

NextLate == AddLateProcess \/ LateStep

SpecLate == InitLate /\ [][NextLate]_vars

\* ------------------------------------------------- the two Round Robin runs
\* An RRScheduler and the standalone Scheduler with the same quantum, CPUs
\* and I/O devices, given the same jobs (bursts alternating from a CPU
\* burst) before the first step and then stepped together.
JobsProcs == 3

JobsDur == 3

JobsMaxClock == 14

JobDescriptors ==
    [bursts : {<<cpu(a)>> : a \in 1 .. JobsDur}
              \cup {<<cpu(a), io(b)>> : a \in 1 .. 2, b \in 1 .. 2}
              \cup {<<cpu(a), io(1), cpu(1)>> : a \in 1 .. 2},
     arrival_time : 0 .. MaxArrival]

\* the burst list of a Process as the list of tuples of a Job
Tuples(bursts) == [i \in DOMAIN bursts |-> <<bursts[i].kind, bursts[i].duration>>]

InitJobs ==
    /\ policy = "RR"
    /\ num_cpus \in 1 .. MaxCpus
    /\ num_ios \in 1 .. MaxIos
    /\ quantum \in 1 .. MaxQuantum
    /\ preemptive = FALSE
    /\ InitScheduler

\* one more job in the list both schedulers are given: add_process on the
\* RRScheduler, the constructor argument of the standalone Scheduler
AddJob ==
    /\ Len(procs) < JobsProcs
    /\ clock = 0
    /\ \E d \in JobDescriptors :
          /\ Add(Process(Len(procs) + 1, d.bursts, 0, d.arrival_time))
          /\ standalone' = Scheduler(Append(standalone.heap,
                               Job(Len(procs) + 1, d.arrival_time, Tuples(d.bursts))))
    /\ UNCHANGED <<twin, twin_lag>>

\* step() on both
JobsStep ==
    /\ StepUpTo(JobsMaxClock)
    /\ standalone' = Scheduler_step(standalone)
    /\ UNCHANGED <<twin, twin_lag>>

NextJobs == AddJob \/ JobsStep

SpecJobs == InitJobs /\ [][NextJobs]_vars

\* ======================================================================
\* Claims
\* ======================================================================
RECURSIVE CountIn(_, _)
CountIn(q, o) ==
    IF q = <<>> THEN 0 ELSE (IF Head(q) = o THEN 1 ELSE 0) + CountIn(Tail(q), o)

\* the number of places (queue positions and slots) that hold process o
Places(o) ==
    CountIn(not_arrived, o) + CountIn(ready_queue, o) + CountIn(wait_queue, o)
    + CountIn(cpu_queue, o) + CountIn(io_queue, o) + CountIn(finished, o)

Tracked ==
    Len(not_arrived) + Len(ready_queue) + Len(wait_queue)
    + Occupied(cpu_queue) + Occupied(io_queue) + Len(finished)

WellFormed(p) ==
    /\ Len(p.bursts) > 0
    /\ \A i \in DOMAIN p.bursts : p.bursts[i].duration > 0

\* C1 (conservation): under every policy, after any sequence of add_process
\* and step() calls, every added process is held by exactly one of
\* not_arrived, ready_queue, a cpu_queue slot, wait_queue, an io_queue slot
\* or finished, and the number of tracked processes is the number added.
C1_Conservation ==
    /\ \A o \in DOMAIN procs : Places(o) = 1
    /\ Tracked = Len(procs)

\* a preemption has happened, one process has finished and another is on an
\* I/O device
C1_Witness ==
    /\ Len(procs) = 2
    /\ preempt_log # {}
    /\ Len(finished) = 1
    /\ \E i \in DOMAIN io_queue : io_queue[i] # None

\* a state that step() maps to itself but for the clock, with nothing left
\* to arrive: every later step() does the same, so has_jobs() stays true
Stuck ==
    /\ has_jobs
    /\ not_arrived = <<>>
    /\ step(Sched) = [Sched EXCEPT !.clock = @ + 1]

\* C2 as claimed (termination for every well-formed input and every number
\* of CPU and I/O slots, 0 I/O devices included): no run of well-formed
\* processes reaches a state in which step() makes no more progress while
\* has_jobs() is true.
C2_TerminatesAlways == ~Stuck

\* no process ever has to enter wait_queue: each has a single burst
SingleBurstOnly == \A o \in DOMAIN procs : Len(procs[o].bursts) = 1

\* C2 (termination, amended): with at least one I/O device, or with no I/O
\* device and single-burst processes only, every run of well-formed
\* processes has has_jobs() = false by tick MaxClock, under every policy.
C2_Terminates ==
    (num_ios >= 1 \/ SingleBurstOnly) => (clock = MaxClock => ~has_jobs)

\* a run of two three-burst processes on one CPU and one I/O device that has
\* ended, after a preemption
C2_Witness ==
    /\ clock = MaxClock
    /\ num_cpus = 1 /\ num_ios = 1
    /\ Len(procs) = 2
    /\ \A o \in DOMAIN procs : Len(procs[o].bursts) = 3
    /\ preempt_log # {}
    /\ ~has_jobs

\* C3 (monotonicity): no step() and no add_process lowers the clock or any
\* process's current_burst_index, wait_time, io_time or runtime.
C3_Monotone ==
    [][/\ clock' >= clock
       /\ \A o \in DOMAIN procs :
             /\ procs'[o].current_burst_index >= procs[o].current_burst_index
             /\ procs'[o].wait_time >= procs[o].wait_time
             /\ procs'[o].io_time >= procs[o].io_time
             /\ procs'[o].runtime >= procs[o].runtime]_vars

\* a process that has waited, done I/O and is on its third burst
C3_Witness ==
    \E o \in DOMAIN procs :
        /\ procs[o].current_burst_index = 2
        /\ procs[o].wait_time > 1
        /\ procs[o].io_time > 0
        /\ procs[o].runtime > 1

\* ------------------------------------------------------------ scenarios
IsProc(o, bursts, arrival_time) ==
    /\ o \in DOMAIN procs
    /\ procs[o].bursts = bursts
    /\ procs[o].arrival_time = arrival_time

Finished(o) == procs[o].state = "finished"

DispatchTicks(o) == {e[1] : e \in {d \in dispatch_log : d[2] = o}}

PreemptTicks(o) == {e[1] : e \in {d \in preempt_log : d[2] = o}}

FCFSScenario ==
    /\ policy = "FCFS" /\ num_cpus = 1 /\ num_ios = 0
    /\ Len(procs) = 2
    /\ IsProc(1, <<cpu(5)>>, 0)
    /\ IsProc(2, <<cpu(3)>>, 0)

\* C4 (FCFS scenario): P1 (arrival 0, [CPU:5]) and P2 (arrival 0, [CPU:3])
\* added in that order, 1 CPU, 0 I/O devices: P1 finishes in the step of
\* tick 5 with end_time 5, P2 is dispatched only once P1 has finished, P2
\* finishes in the step of tick 8 with end_time 8 and wait_time 5.
C4_FCFSScenario ==
    FCFSScenario =>
        /\ Finished(1) <=> clock >= 6
        /\ Finished(1) => procs[1].end_time = 5
        /\ \A t \in DispatchTicks(2) : Finished(1) /\ t >= procs[1].end_time
        /\ Finished(2) <=> clock >= 9
        /\ Finished(2) => procs[2].end_time = 8 /\ procs[2].wait_time = 5

C4_Witness == FCFSScenario /\ Finished(2) /\ DispatchTicks(2) # {}

RRScenarioOne ==
    /\ policy = "RR" /\ quantum = 2 /\ num_cpus = 1
    /\ Len(procs) = 1
    /\ IsProc(1, <<cpu(5)>>, 0)

\* C5 (Round Robin, one process): P1 (arrival 0, [CPU:5]) alone, quantum 2,
\* 1 CPU: P1 is preempted in the steps of tick 2 and tick 4 and at no other
\* tick, is dispatched again in the same step each time, and finishes with
\* end_time 5.
C5_RRSingle ==
    RRScenarioOne =>
        /\ PreemptTicks(1) \subseteq {2, 4}
        /\ clock >= 3 => 2 \in PreemptTicks(1) /\ 2 \in DispatchTicks(1)
        /\ clock >= 5 => 4 \in PreemptTicks(1) /\ 4 \in DispatchTicks(1)
        /\ clock \in 1 .. 5 => cpu_queue[1] = 1
        /\ Finished(1) <=> clock >= 6
        /\ Finished(1) => procs[1].end_time = 5

C5_Witness == RRScenarioOne /\ Finished(1) /\ PreemptTicks(1) = {2, 4}

RRScenarioTwo ==
    /\ policy = "RR" /\ quantum = 2 /\ num_cpus = 1
    /\ Len(procs) = 2
    /\ IsProc(1, <<cpu(5)>>, 0)
    /\ IsProc(2, <<cpu(2)>>, 0)

\* C6 (Round Robin, two processes): P1 (arrival 0, [CPU:5]) and P2 (arrival
\* 0, [CPU:2]) added in that order, quantum 2, 1 CPU: P1 is dispatched at
\* tick 0 and holds the CPU until it is preempted at tick 2; P2 is dispatched
\* at tick 2, is never preempted and completes at tick 4; P1 is dispatched
\* at tick 4, holds the CPU from then on and finishes with end_time 7.
C6_RRPair ==
    RRScenarioTwo =>
        /\ clock >= 1 => 0 \in DispatchTicks(1)
        /\ clock \in 1 .. 2 => cpu_queue[1] = 1
        /\ clock >= 3 => 2 \in PreemptTicks(1)
        /\ DispatchTicks(2) \subseteq {2}
        /\ clock \in 3 .. 4 => cpu_queue[1] = 2
        /\ PreemptTicks(2) = {}
        /\ Finished(2) <=> clock >= 5
        /\ Finished(2) => procs[2].end_time = 4
        /\ clock >= 5 => 4 \in DispatchTicks(1)
        /\ clock \in 5 .. 7 => cpu_queue[1] = 1
        /\ Finished(1) <=> clock >= 8
        /\ Finished(1) => procs[1].end_time = 7

C6_Witness == RRScenarioTwo /\ Finished(1) /\ Finished(2) /\ 2 \in PreemptTicks(1)

SRTFScenario ==
    /\ policy = "SRTF" /\ num_cpus = 1
    /\ Len(procs) = 2
    /\ IsProc(1, <<cpu(8)>>, 0)
    /\ IsProc(2, <<cpu(3)>>, 2)

\* C7 (SRTF scenario, timing): P1 (arrival 0, [CPU:8]) and P2 (arrival 2,
\* [CPU:3]), 1 CPU: P1 is dispatched at tick 0; in the step of tick 2 P1 is
\* preempted and P2 is dispatched; P2 is dispatched once, never preempted,
\* holds the CPU until it finishes with end_time 5.
C7_SRTFTiming ==
    SRTFScenario =>
        /\ clock >= 1 => 0 \in DispatchTicks(1)
        /\ clock \in 1 .. 2 => cpu_queue[1] = 1
        /\ clock >= 3 => 2 \in PreemptTicks(1)
        /\ clock >= 3 => DispatchTicks(2) = {2}
        /\ clock < 3 => DispatchTicks(2) = {}
        /\ PreemptTicks(2) = {}
        /\ clock \in 3 .. 5 => cpu_queue[1] = 2
        /\ Finished(2) <=> clock >= 6
        /\ Finished(2) => procs[2].end_time = 5

C7_Witness == SRTFScenario /\ Finished(2) /\ PreemptTicks(1) = {2}

\* C8 (SRTF scenario, remaining work): in the scenario of C7, P1's remaining
\* time when it has been preempted at tick 2 is 6 (8 minus a time_in_burst of
\* 2), and P1, resumed when P2 completes at tick 5 with 6 ticks left, finishes
\* with end_time 11.
C8_SRTFRemaining ==
    SRTFScenario =>
        /\ (2 \in PreemptTicks(1) /\ procs[1].state = "ready")
               => (procs[1].time_in_burst = 2
                   /\ get_remaining_burst_time(procs[1]) = 6)
        /\ Finished(1) => procs[1].end_time = 11

\* ------------------------------------------------------ Priority tie-break
FirstRun(o) == procs[o].first_run_time

\* a was dispatched no later than b, and before b on a single CPU
DispatchedFirst(a, b) ==
    FirstRun(b) # NoTime =>
        /\ FirstRun(a) # NoTime
        /\ FirstRun(a) <= FirstRun(b)
        /\ num_cpus = 1 => FirstRun(a) < FirstRun(b)

TiedPair(a, b) ==
    /\ procs[a].priority = procs[b].priority
    /\ procs[a].arrival_time < procs[b].arrival_time

\* C9 as claimed (Priority tie-break): of any two processes with equal
\* priority and different arrival_time, the one with the earlier
\* arrival_time has its first dispatch no later than the other, and strictly
\* before it on one CPU, with preemptive True and False and whatever the
\* order of the add_process calls.
C9_TieBreakAlways ==
    \A a, b \in DOMAIN procs : TiedPair(a, b) => DispatchedFirst(a, b)

\* C9 (Priority tie-break, amended): the same, for pairs whose
\* earlier-arriving process was added while the clock had not passed the
\* arrival_time of the later-arriving one.
C9_TieBreak ==
    \A a, b \in DOMAIN procs :
        (TiedPair(a, b) /\ add_log[a] <= procs[b].arrival_time)
            => DispatchedFirst(a, b)

\* both of a tied pair have been dispatched, the earlier one only after the
\* later one had arrived, because a process added first held the only CPU
C9_Witness ==
    /\ num_cpus = 1
    /\ \E a, b \in DOMAIN procs :
          /\ TiedPair(a, b)
          /\ a > b
          /\ add_log[a] <= procs[b].arrival_time
          /\ FirstRun(a) # NoTime /\ FirstRun(b) # NoTime
          /\ FirstRun(a) >= procs[b].arrival_time

\* ------------------------------------------------------ invalid input
Held(o) == Places(o) > 0

\* C10 (invalid input): add_process rejects a process whose burst list is
\* empty, that has a burst duration that is not positive, or whose pid is
\* that of a process already added, and leaves the scheduler as it was: no
\* queue or slot of the scheduler ever holds such a process.
C10_InvalidRejected ==
    \A o \in DOMAIN procs :
        Held(o) =>
            /\ WellFormed(procs[o])
            /\ \A o2 \in DOMAIN procs :
                  (o2 # o /\ Held(o2)) => procs[o2].pid # procs[o].pid

\* ------------------------------------------------------ slots and burst kinds
HoldsKind(slots, kind) ==
    \A i \in DOMAIN slots :
        slots[i] # None =>
            /\ has_current_burst(procs[slots[i]])
            /\ current_burst(procs[slots[i]]).kind = kind

\* C11 (slot and burst kind): after every step(), each occupied CPU slot
\* holds a process whose current burst is a CPU burst and each occupied I/O
\* slot holds a process whose current burst is an I/O burst, for every list
\* of bursts with positive durations, those that start with an I/O burst or
\* repeat a kind included.
C11_SlotKinds ==
    /\ HoldsKind(cpu_queue, "cpu")
    /\ HoldsKind(io_queue, "io")

\* ------------------------------------------------------ end_time, turnaround
InFinished(q, o) == \E i \in DOMAIN q : q[i] = o

\* C12 (end_time and turnaround_time): the step() in which a process enters
\* finished sets its end_time to the clock of that tick and its
\* turnaround_time to end_time - arrival_time; neither is written before
\* that step (they keep the 0 of the constructor) nor changed after it, and
\* the process stays in finished.
C12_EndTimeOnce ==
    [][\A o \in DOMAIN procs :
          /\ (~InFinished(finished, o) /\ InFinished(finished', o)) =>
                 /\ procs'[o].end_time = clock
                 /\ procs'[o].turnaround_time = procs'[o].end_time - procs[o].arrival_time
          /\ InFinished(finished, o) =>
                 /\ InFinished(finished', o)
                 /\ procs'[o].end_time = procs[o].end_time
                 /\ procs'[o].turnaround_time = procs[o].turnaround_time
          /\ ~InFinished(finished', o) =>
                 /\ procs'[o].end_time = 0
                 /\ procs'[o].turnaround_time = 0]_vars

\* one process has finished on a CPU and one on an I/O device, both some
\* ticks ago and at different ticks, one of them after its arrival tick
C12_Witness ==
    /\ Len(procs) = 2
    /\ Len(finished) = 2
    /\ \E a, b \in DOMAIN procs :
          /\ procs[a].bursts[Len(procs[a].bursts)].kind = "cpu"
          /\ procs[b].bursts[Len(procs[b].bursts)].kind = "io"
          /\ procs[a].end_time # procs[b].end_time
          /\ procs[b].arrival_time > 0
          /\ procs[b].turnaround_time = procs[b].end_time - procs[b].arrival_time
          /\ clock > procs[a].end_time + 2 /\ clock > procs[b].end_time + 2

\* ------------------------------------------------------ wait_time
NonPreemptivePolicy ==
    policy \in {"FCFS", "SJF"} \/ (policy = "Priority" /\ ~preemptive)

\* C13 as claimed (wait_time under the non-preemptive policies): every
\* finished process, whatever the number of its CPU and I/O bursts, has
\* wait_time = first dispatch time - arrival_time (read in the claim's
\* favour: of the processes that were added no later than their
\* arrival_time).
C13_WaitAlways ==
    NonPreemptivePolicy =>
        \A o \in DOMAIN procs :
            (Finished(o) /\ add_log[o] <= procs[o].arrival_time) =>
                procs[o].wait_time = FirstRun(o) - procs[o].arrival_time

\* C13 (wait_time, amended): under FCFS, SJF and non-preemptive Priority,
\* a finished process that was added no later than its arrival_time has
\* wait_time >= first dispatch time - arrival_time, with equality when it
\* has a single burst.
C13_Wait ==
    NonPreemptivePolicy =>
        \A o \in DOMAIN procs :
            (Finished(o) /\ add_log[o] <= procs[o].arrival_time) =>
                /\ procs[o].wait_time >= FirstRun(o) - procs[o].arrival_time
                /\ Len(procs[o].bursts) = 1 =>
                       procs[o].wait_time = FirstRun(o) - procs[o].arrival_time

\* a single-burst process that waited two ticks or more for its CPU, and a
\* process that waited again after its I/O
C13_Witness ==
    /\ NonPreemptivePolicy
    /\ \E a, b \in DOMAIN procs :
          /\ Finished(a) /\ Finished(b)
          /\ add_log[a] <= procs[a].arrival_time
          /\ add_log[b] <= procs[b].arrival_time
          /\ Len(procs[a].bursts) = 1
          /\ procs[a].wait_time >= 2
          /\ Len(procs[b].bursts) = 3
          /\ procs[b].wait_time > FirstRun(b) - procs[b].arrival_time

\* ------------------------------------------------------ has_jobs
\* C14 (has_jobs): has_jobs() is true exactly when some added process is not
\* in finished, and false exactly when every added process is in finished.
C14_HasJobs ==
    has_jobs <=> \E o \in DOMAIN procs : ~InFinished(finished, o)

\* both answers have been given: two processes were added, the last of them
\* waited in not_arrived, and has_jobs() is false now that both are finished
C14_Witness ==
    /\ Len(procs) = 2
    /\ \A o \in DOMAIN procs : InFinished(finished, o)
    /\ ~has_jobs
    /\ \E o \in DOMAIN procs : add_log[o] < procs[o].arrival_time

\* ------------------------------------------------------ legal transitions
\* where the scheduler S keeps process o
Loc(S, o) ==
    IF InFinished(S.not_arrived, o) THEN "not_arrived"
    ELSE IF InFinished(S.ready_queue, o) THEN "ready"
    ELSE IF InFinished(S.cpu_queue, o) THEN "cpu"
    ELSE IF InFinished(S.wait_queue, o) THEN "wait"
    ELSE IF InFinished(S.io_queue, o) THEN "io"
    ELSE IF InFinished(S.finished, o) THEN "finished"
    ELSE "nowhere"

LegalMoves ==
    {<<"not_arrived", "ready">>, <<"ready", "cpu">>, <<"cpu", "wait">>,
     <<"cpu", "finished">>, <<"cpu", "ready">>, <<"wait", "io">>,
     <<"io", "ready">>, <<"io", "finished">>}

\* the scheduler before the step() called in the present state and after
\* each phase of it
StepPhases ==
    LET s1 == check_arrivals(Sched)
        s2 == before_cpus(s1)
        s3 == process_cpus(s2)
        s4 == process_io_devices(s3)
        s5 == dispatch_to_cpus(s4)
        s6 == dispatch_to_io_devices(s5)
    IN <<Sched, s1, s2, s3, s4, s5, s6, tick(s6)>>

\* C15 (legal transitions): every change of a process's location made by a
\* phase of step() is one of not_arrived to ready, ready to CPU, CPU to
\* wait_queue, CPU to finished, CPU to ready, wait_queue to I/O, I/O to
\* ready, I/O to finished; no process leaves finished; a process enters
\* finished only with current_burst_index = len(bursts); and the phases
\* together are step().
C15_LegalMoves ==
    LET phases == StepPhases IN
    /\ phases[8] = step(Sched)
    /\ \A k \in 1 .. 7 : \A o \in DOMAIN procs :
          LET from == Loc(phases[k], o)
              to == Loc(phases[k + 1], o)
          IN /\ from = to \/ <<from, to>> \in LegalMoves
             /\ (to = "finished" /\ from # "finished") =>
                    phases[k + 1].procs[o].current_burst_index
                        = Len(procs[o].bursts)

\* a process has been preempted, one has finished, and one runs on a CPU
\* after its I/O
C15_Witness ==
    /\ preempt_log # {}
    /\ Len(finished) >= 1
    /\ \E o \in DOMAIN procs :
          /\ procs[o].io_time > 0
          /\ InFinished(cpu_queue, o)

\* ------------------------------------------------------ snapshot
\* C16 (snapshot has no side effects): a call of snapshot() leaves the
\* clock, every queue, slot and counter and every process as they were, and
\* when the call before it was a snapshot() too, with no step() or
\* add_process between them, it returns what that call returned.
C16_SnapshotPure ==
    [][last_snapshot' # <<>> =>
          /\ Sched' = Sched
          /\ add_log' = add_log
          /\ <<policy, num_cpus, num_ios, quantum, preemptive>>'
                = <<policy, num_cpus, num_ios, quantum, preemptive>>
          /\ last_snapshot # <<>> => last_snapshot' = last_snapshot]_vars

\* snapshot() has been called in the middle of a run: one process finished,
\* one on the CPU, one still to arrive or waiting
C16_Witness ==
    /\ last_snapshot # <<>>
    /\ last_snapshot[1].clock >= 3
    /\ Len(last_snapshot[1].finished) = 1
    /\ last_snapshot[1].cpu # <<None>>
    /\ last_snapshot[1].clock = clock

C18_AdvanceBeforePreempt ==
    [][clock' = clock + 1 =>
          \A i \in DOMAIN cpu_queue :
              (cpu_queue[i] # None /\ has_current_burst(procs[cpu_queue[i]])) =>
                  \/ procs'[cpu_queue[i]].time_in_burst
                         = procs[cpu_queue[i]].time_in_burst + 1
                  \/ procs'[cpu_queue[i]].current_burst_index
                         = procs[cpu_queue[i]].current_burst_index + 1]_vars

\* C19 (aging after admission): a step() adds one to the wait_time of
\* exactly the processes that are in the ready queue right after its
\* admission phase, before resource advance, preemption and dispatch.
C19_AgingAfterAdmission ==
    [][clock' = clock + 1 =>
          \A o \in DOMAIN procs :
              procs'[o].wait_time =
                  procs[o].wait_time
                  + (IF InFinished(check_arrivals(Sched).ready_queue, o) THEN 1 ELSE 0)]_vars

\* C20 (admission and dispatch in one step): a process in not_arrived whose
\* arrival_time is the clock T leaves not_arrived in step T and is either
\* on a CPU when the step returns, with first dispatch time T, or in the
\* ready queue with every CPU taken.
C20_SameTickAdmission ==
    [][clock' = clock + 1 =>
          \A o \in DOMAIN procs :
              (InFinished(not_arrived, o) /\ procs[o].arrival_time = clock) =>
                  /\ ~InFinished(not_arrived', o)
                  /\ \/ InFinished(cpu_queue', o) /\ procs'[o].first_run_time = clock
                     \/ InFinished(ready_queue', o) /\ Occupied(cpu_queue') = num_cpus]_vars

\* a process that arrived at tick 1, having been added before, was put on a
\* CPU in the step of tick 1, next to a process that was already running
C20_Witness ==
    /\ clock = 2
    /\ num_cpus = 2
    /\ Occupied(cpu_queue) = 2
    /\ \E o \in DOMAIN procs :
          /\ procs[o].arrival_time = 1
          /\ add_log[o] = 0
          /\ InFinished(cpu_queue, o)
          /\ FirstRun(o) = 1

\* ------------------------------------------------------ work conservation
\* C21 (work-conserving dispatch): when step() has returned, no CPU slot is
\* empty while ready_queue is not empty and no I/O slot is empty while
\* wait_queue is not empty, for 1 .. MaxCpus CPUs, 0 .. MaxIos I/O devices
\* and every policy.
C21_WorkConserving ==
    /\ ready_queue # <<>> => Occupied(cpu_queue) = num_cpus
    /\ wait_queue # <<>> => Occupied(io_queue) = num_ios

\* one dispatch has filled both I/O slots, and the CPU is taken again
C21_Witness ==
    /\ num_ios = 2
    /\ Occupied(io_queue) = 2
    /\ \A i \in DOMAIN io_queue : procs[io_queue[i]].time_in_burst = 0
    /\ wait_queue = <<>>

\* ------------------------------------------------------ non-preemption
\* C22 (non-preemptive policies): under FCFS, SJF and Priority with
\* preemptive=False a step() never moves a process from a CPU slot to
\* ready_queue: the process on a CPU slot is still on it after the step,
\* in the same burst, unless the step completed that burst.
C22_NonPreemptive ==
    [][(clock' = clock + 1 /\ NonPreemptivePolicy) =>
          /\ preempt_log' = preempt_log
          /\ \A i \in DOMAIN cpu_queue :
                cpu_queue[i] # None =>
                    \/ /\ cpu_queue'[i] = cpu_queue[i]
                       /\ procs'[cpu_queue[i]].current_burst_index
                              = procs[cpu_queue[i]].current_burst_index
                    \/ /\ procs'[cpu_queue[i]].current_burst_index
                              = procs[cpu_queue[i]].current_burst_index + 1
                       /\ ~InFinished(ready_queue', cpu_queue[i])]_vars

\* under Priority with preemptive=False a process of better priority waits
\* in ready_queue behind a running process that has started its burst
C22_Witness ==
    /\ policy = "Priority" /\ ~preemptive
    /\ num_cpus = 1
    /\ cpu_queue[1] # None
    /\ ready_queue # <<>>
    /\ procs[Head(ready_queue)].priority < procs[cpu_queue[1]].priority
    /\ procs[cpu_queue[1]].time_in_burst = 1

\* ------------------------------------------------------ Round Robin quantum
Pos(q, o) == CHOOSE i \in DOMAIN q : q[i] = o

\* the burst of p is not finished by one more tick
Unfinished(p) == p.time_in_burst + 1 < current_burst(p).duration

\* C23 (Round Robin quantum): the counter of an occupied CPU slot is set to
\* the quantum at dispatch and is between 1 and the quantum when step()
\* begins; _process_cpus advances the burst by one tick and lowers the
\* counter by one, so a burst advances at most quantum ticks per dispatch;
\* when the counter reaches 0 with the burst unfinished the process leaves
\* its slot and is in ready_queue behind every process that was there.
C23_RRQuantum ==
    IF policy # "RR" THEN TRUE
    ELSE LET phases == StepPhases
             a == phases[3]
             b == phases[4]
         IN /\ \A i \in DOMAIN cpu_queue :
                  a.cpu_queue[i] # None =>
                      LET o == a.cpu_queue[i] IN
                      /\ i \in DOMAIN a.quantum_remaining
                      /\ a.quantum_remaining[i] \in 1 .. quantum
                      /\ Unfinished(a.procs[o]) =>
                             /\ b.procs[o].time_in_burst = a.procs[o].time_in_burst + 1
                             /\ IF a.quantum_remaining[i] = 1
                                THEN /\ b.cpu_queue[i] = None
                                     /\ InFinished(b.ready_queue, o)
                                     /\ \A r \in DOMAIN a.ready_queue :
                                           Pos(b.ready_queue, a.ready_queue[r])
                                               < Pos(b.ready_queue, o)
                                ELSE /\ b.cpu_queue[i] = o
                                     /\ b.quantum_remaining[i]
                                            = a.quantum_remaining[i] - 1
            /\ \A i \in DOMAIN cpu_queue :
                  (phases[5].cpu_queue[i] = None /\ phases[6].cpu_queue[i] # None) =>
                      phases[6].quantum_remaining[i] = quantum

\* step() is called with a process on its last tick of quantum, its burst
\* two ticks or more from its end, and another process in ready_queue
C23_Witness ==
    /\ policy = "RR"
    /\ ready_queue # <<>>
    /\ \E i \in DOMAIN cpu_queue :
          /\ cpu_queue[i] # None
          /\ quantum_remaining[i] = 1
          /\ Unfinished(procs[cpu_queue[i]])
          /\ procs[cpu_queue[i]].time_in_burst >= 1

\* C24 (completion takes precedence over quantum expiry): under Round Robin
\* and Adaptive, a process whose burst completes in the tick in which its
\* quantum counter reaches 0 goes to wait_queue or finished; it is not put
\* in ready_queue and not recorded as preempted.
C24_CompletionFirst ==
    IF policy \notin {"RR", "Adaptive"} THEN TRUE
    ELSE LET phases == StepPhases
             a == phases[3]
             b == phases[4]
         IN \A i \in DOMAIN cpu_queue :
                (/\ a.cpu_queue[i] # None
                 /\ i \in DOMAIN a.quantum_remaining
                 /\ a.quantum_remaining[i] = 1
                 /\ ~Unfinished(a.procs[a.cpu_queue[i]])) =>
                    LET o == a.cpu_queue[i] IN
                    /\ Loc(b, o) \in {"wait", "finished"}
                    /\ b.procs[o].current_burst_index
                           = a.procs[o].current_burst_index + 1
                    /\ <<a.clock, o>> \notin b.preempt_log
                    /\ b.cpu_queue[i] = None

\* under Adaptive, step() is called with a process on the last tick of its
\* quantum and on the last tick of a two-tick burst that is not its last
C24_Witness ==
    /\ policy = "Adaptive"
    /\ \E i \in DOMAIN cpu_queue :
          /\ cpu_queue[i] # None
          /\ quantum_remaining[i] = 1
          /\ current_burst(procs[cpu_queue[i]]).duration = 2
          /\ procs[cpu_queue[i]].time_in_burst = 1
          /\ Len(procs[cpu_queue[i]].bursts) > 1

\* C25 (quantum counters): under Round Robin and Adaptive, when step() has
\* returned a counter exists for CPU slot i exactly when slot i is occupied;
\* _process_cpus leaves no counter for a slot it has emptied, and a slot
\* that the dispatch fills gets a new counter (the quantum, or Adaptive's
\* current quantum), whatever counter the slot had before.
C25_QuantumCounters ==
    IF policy \notin {"RR", "Adaptive"} THEN TRUE
    ELSE LET phases == StepPhases IN
         /\ DOMAIN quantum_remaining = {i \in DOMAIN cpu_queue : cpu_queue[i] # None}
         /\ \A i \in DOMAIN cpu_queue :
               /\ (phases[3].cpu_queue[i] # None /\ phases[4].cpu_queue[i] = None) =>
                      i \notin DOMAIN phases[4].quantum_remaining
               /\ (phases[5].cpu_queue[i] = None /\ phases[6].cpu_queue[i] # None) =>
                      /\ i \in DOMAIN phases[6].quantum_remaining
                      /\ phases[6].quantum_remaining[i] =
                             (IF policy = "RR" THEN quantum
                              ELSE phases[5].current_quantum)

\* of two CPU slots one has been emptied by a completion and not refilled,
\* the other holds a process that was preempted and dispatched again
C25_Witness ==
    /\ policy = "RR"
    /\ num_cpus = 2
    /\ Occupied(cpu_queue) = 1
    /\ Len(finished) = 1
    /\ \E i \in DOMAIN cpu_queue :
          /\ cpu_queue[i] # None
          /\ PreemptTicks(cpu_queue[i]) # {}

\* ------------------------------------------------------ selection at dispatch
\* the processes that _dispatch_to_cpus put on a CPU: on a slot of b, on none of a
Dispatched(a, b) ==
    {b.cpu_queue[i] : i \in {j \in DOMAIN b.cpu_queue :
                                 b.cpu_queue[j] # None /\ a.cpu_queue[j] = None}}

\* the processes that were in ready_queue when o was selected: those left in
\* it after the dispatch and those dispatched after o (the loop fills the
\* free slots in index order)
Passed(a, b, o) ==
    {b.ready_queue[i] : i \in DOMAIN b.ready_queue}
    \cup {d \in Dispatched(a, b) : Pos(b.cpu_queue, d) > Pos(b.cpu_queue, o)}

\* duration of the current burst, and what is left of it
Duration(p) == current_burst(p).duration

TrueRemaining(p) == current_burst(p).duration - p.time_in_burst

\* C26 (SJF selection): every process that a dispatch puts on a CPU has a
\* current CPU burst no longer than that of any process in ready_queue at
\* that moment, and where the durations are equal an arrival_time no
\* later, also when one of the two has just returned from I/O.
C26_SJFSelection ==
    IF policy # "SJF" THEN TRUE
    ELSE LET phases == StepPhases
             a == phases[5]
             b == phases[6]
         IN \A o \in Dispatched(a, b) : \A r \in Passed(a, b, o) :
                \/ Duration(b.procs[o]) < Duration(b.procs[r])
                \/ /\ Duration(b.procs[o]) = Duration(b.procs[r])
                   /\ b.procs[o].arrival_time <= b.procs[r].arrival_time

\* the part of C26 that is about durations only
C26_SJFShortest ==
    IF policy # "SJF" THEN TRUE
    ELSE LET phases == StepPhases
             a == phases[5]
             b == phases[6]
         IN \A o \in Dispatched(a, b) : \A r \in Passed(a, b, o) :
                Duration(b.procs[o]) <= Duration(b.procs[r])

\* C27 (SRTF preemption): _check_preemption takes a process off its CPU
\* only if ready_queue is not empty and holds a process (its head, once
\* sorted) whose remaining time, duration minus time_in_burst, is strictly
\* smaller than the remaining time of the running process.
C27_SRTFPreemption ==
    IF policy # "SRTF" THEN TRUE
    ELSE LET phases == StepPhases
             a == phases[2]
             b == phases[3]
         IN \A i \in DOMAIN cpu_queue :
                (a.cpu_queue[i] # None /\ b.cpu_queue[i] # a.cpu_queue[i]) =>
                    /\ a.ready_queue # <<>>
                    /\ b.cpu_queue[i] = None
                    /\ \E k \in DOMAIN a.ready_queue :
                          TrueRemaining(a.procs[a.ready_queue[k]])
                              < TrueRemaining(a.procs[a.cpu_queue[i]])

\* step() is called with a process on a CPU that has run for a tick or
\* more, while a process arrives whose burst is as long as what is left of
\* the running one and shorter than the whole of it
C27_Witness ==
    /\ policy = "SRTF"
    /\ \E i \in DOMAIN cpu_queue : \E k \in DOMAIN not_arrived :
          /\ cpu_queue[i] # None
          /\ procs[cpu_queue[i]].time_in_burst >= 1
          /\ procs[not_arrived[k]].arrival_time = clock
          /\ Duration(procs[not_arrived[k]]) = TrueRemaining(procs[cpu_queue[i]])

\* C28 (SRTF tie-break): of the processes in ready_queue with the same
\* remaining time in their current CPU burst, a dispatch takes the one with
\* the earliest arrival_time, also when one of them was preempted and
\* requeued before.
C28_SRTFTieBreak ==
    IF policy # "SRTF" THEN TRUE
    ELSE LET phases == StepPhases
             a == phases[5]
             b == phases[6]
         IN \A o \in Dispatched(a, b) : \A r \in Passed(a, b, o) :
                TrueRemaining(b.procs[o]) = TrueRemaining(b.procs[r]) =>
                    b.procs[o].arrival_time <= b.procs[r].arrival_time

\* the part of C28's rule that is about remaining times only
C28_SRTFShortest ==
    IF policy # "SRTF" THEN TRUE
    ELSE LET phases == StepPhases
             a == phases[5]
             b == phases[6]
         IN \A o \in Dispatched(a, b) : \A r \in Passed(a, b, o) :
                TrueRemaining(b.procs[o]) <= TrueRemaining(b.procs[r])

\* C29 (Priority preemption): with preemptive=True _check_preemption takes
\* a process off its CPU only if ready_queue is not empty and holds a
\* process (its head, once sorted by priority and arrival_time) of strictly
\* lower priority value; with preemptive=False the check changes nothing.
C29_PriorityPreemption ==
    IF policy # "Priority" THEN TRUE
    ELSE LET phases == StepPhases
             a == phases[2]
             b == phases[3]
         IN /\ ~preemptive => b = a
            /\ \A i \in DOMAIN cpu_queue :
                  (a.cpu_queue[i] # None /\ b.cpu_queue[i] # a.cpu_queue[i]) =>
                      /\ a.ready_queue # <<>>
                      /\ b.cpu_queue[i] = None
                      /\ \E k \in DOMAIN a.ready_queue :
                            a.procs[a.ready_queue[k]].priority
                                < a.procs[a.cpu_queue[i]].priority

\* step() is called under preemptive Priority with two running processes,
\* of priority 1 and 2, while a process of priority 1 arrives: it has the
\* priority of one and a better priority than the other
C29_Witness ==
    /\ policy = "Priority" /\ preemptive
    /\ num_cpus = 2
    /\ Occupied(cpu_queue) = 2
    /\ {procs[cpu_queue[i]].priority : i \in DOMAIN cpu_queue} = {1, 2}
    /\ \E k \in DOMAIN not_arrived :
          /\ procs[not_arrived[k]].arrival_time <= clock
          /\ procs[not_arrived[k]].priority = 1

\* ------------------------------------------------------ Adaptive tiers
\* CPU and I/O time the process has been observed to use so far
ObservedCpu(p) ==
    p.runtime + (IF has_current_burst(p) /\ current_burst(p).kind = "cpu"
                 THEN p.time_in_burst ELSE 0)

ObservedIo(p) ==
    p.io_time + (IF has_current_burst(p) /\ current_burst(p).kind = "io"
                 THEN p.time_in_burst ELSE 0)

\* 0: I/O-bound, 1: balanced, 2: CPU-bound
Tier(p) ==
    IF ObservedIo(p) > 2 * ObservedCpu(p) THEN 0
    ELSE IF ObservedCpu(p) > 2 * ObservedIo(p) THEN 2
    ELSE 1

\* C30 (Adaptive tiers): every process that a dispatch puts on a CPU is of
\* a tier no later than that of any process in ready_queue at that moment:
\* I/O-bound (observed I/O time over twice the observed CPU time) before
\* balanced, balanced before CPU-bound (observed CPU time over twice the
\* observed I/O time).
C30_AdaptiveTiers ==
    IF policy # "Adaptive" THEN TRUE
    ELSE LET phases == StepPhases
             a == phases[5]
             b == phases[6]
         IN \A o \in Dispatched(a, b) : \A r \in Passed(a, b, o) :
                Tier(a.procs[o]) <= Tier(a.procs[r])

\* C31 (Adaptive, within a tier): of two processes of the same tier, a
\* dispatch never puts on a CPU the one with the longer current CPU burst
\* while the other is in ready_queue.
C31_AdaptiveShortestInTier ==
    IF policy # "Adaptive" THEN TRUE
    ELSE LET phases == StepPhases
             a == phases[5]
             b == phases[6]
         IN \A o \in Dispatched(a, b) : \A r \in Passed(a, b, o) :
                (/\ Tier(a.procs[o]) = Tier(a.procs[r])
                 /\ classify_process(a.procs[o]) = classify_process(a.procs[r])) =>
                    Duration(a.procs[o]) <= Duration(a.procs[r])

\* ------------------------------------------------------ Adaptive quantum
\* the quantum that the thresholds give for a history h of measured lengths
\* and base quantum base: average > 5, average < 2, otherwise
QuantumFor(h, base) ==
    IF SumSeq(h) > 5 * Len(h) THEN (IF base - 2 > 2 THEN base - 2 ELSE 2)
    ELSE IF SumSeq(h) < 2 * Len(h) THEN base + 2
    ELSE base

\* C32 (Adaptive quantum): the quantum recomputed in a step is the one the
\* thresholds give for the average length of ready_queue over the ticks so
\* far, processes on a CPU not counted.  Stated for the first two ticks of
\* a run: before the first step no CPU is occupied, so load_history then
\* holds the length of ready_queue at tick 0.
C32_QuantumFromReady ==
    IF policy # "Adaptive" \/ clock > 1 THEN TRUE
    ELSE LET phases == StepPhases
             a == phases[2]
             b == phases[3]
         IN b.current_quantum =
                QuantumFor(Append(load_history, Len(a.ready_queue)), quantum)

\* ------------------------------------------------------ admission
\* the processes that the step about to run takes out of not_arrived
Admitted(a, b) ==
    {a.not_arrived[i] : i \in 1 .. (Len(a.not_arrived) - Len(b.not_arrived))}

\* the processes that left not_arrived in an earlier step
AdmittedBefore ==
    {o \in 1 .. Len(procs) : \A i \in DOMAIN not_arrived : not_arrived[i] # o}

\* o is not admitted after r: smaller arrival_time, or the same and added first
AdmitsFirst(o, r) ==
    \/ procs[o].arrival_time < procs[r].arrival_time
    \/ procs[o].arrival_time = procs[r].arrival_time /\ o <= r

\* not_arrived is sorted by arrival_time (add order among equals), a step
\* takes a prefix of it, and leaves no process whose arrival_time is at most
\* the clock the step began at
AdmissionInStep(phases) ==
    /\ \A i, j \in DOMAIN not_arrived :
          i < j => AdmitsFirst(not_arrived[i], not_arrived[j])
    /\ phases[2].not_arrived =
          SubSeq(not_arrived, Len(not_arrived) - Len(phases[2].not_arrived) + 1,
                 Len(not_arrived))
    /\ phases[8].not_arrived = phases[2].not_arrived
    /\ \A i \in DOMAIN phases[8].not_arrived :
          procs[phases[8].not_arrived[i]].arrival_time > clock

\* C33 as stated: AdmissionInStep, and no process is admitted after a
\* process of later arrival_time (or of the same arrival_time and added
\* later), whenever the processes were added.
C33_AdmissionOrderAlways ==
    LET phases == StepPhases
    IN /\ AdmissionInStep(phases)
       /\ \A o \in Admitted(phases[1], phases[2]) : \A r \in AdmittedBefore :
             AdmitsFirst(r, o)

\* C33 (admission order): not_arrived is always sorted ascending by
\* arrival_time, add order among equals; a step admits a prefix of it and
\* returns with no process of arrival_time <= the clock it began at in
\* not_arrived; and a process that was added no later than its arrival_time
\* is never admitted after a process of later arrival_time, or of the same
\* arrival_time and added later.
C33_AdmissionOrder ==
    LET phases == StepPhases
    IN /\ AdmissionInStep(phases)
       /\ \A o \in Admitted(phases[1], phases[2]) : \A r \in AdmittedBefore :
             add_log[o] <= procs[o].arrival_time => AdmitsFirst(r, o)

\* step() is about to admit two processes that were added in the order
\* opposite to their arrival_time, after an earlier admission
C33_Witness ==
    /\ AdmittedBefore # {}
    /\ Len(not_arrived) >= 2
    /\ not_arrived[1] > not_arrived[2]
    /\ procs[not_arrived[2]].arrival_time <= clock
    /\ add_log[not_arrived[2]] <= procs[not_arrived[2]].arrival_time

\* ------------------------------------------------------ waiting queue
\* q is p with zero or more elements appended
IsExtension(q, p) == Len(q) >= Len(p) /\ SubSeq(q, 1, Len(p)) = p

\* the number of processes that _dispatch_to_io_devices takes from wait_queue
TakenForIo(phases) == Len(phases[6].wait_queue) - Len(phases[7].wait_queue)

\* C34 (waiting queue is FIFO): processes enter wait_queue at its tail only,
\* _dispatch_to_io_devices takes them from its head only, puts every one it
\* takes on an I/O slot, in queue order on the free slots, and so assigns no
\* process while one that entered wait_queue earlier is still waiting.
C34_WaitFifo ==
    LET phases == StepPhases
        a == phases[6]
        b == phases[7]
        taken == TakenForIo(phases)
    IN /\ \A i \in 1 .. 5 : IsExtension(phases[i + 1].wait_queue, phases[i].wait_queue)
       /\ b.wait_queue = SubSeq(a.wait_queue, taken + 1, Len(a.wait_queue))
       /\ phases[8].wait_queue = b.wait_queue
       /\ \A i \in 1 .. taken :
             /\ \E k \in DOMAIN b.io_queue :
                   b.io_queue[k] = a.wait_queue[i] /\ a.io_queue[k] = None
             /\ \A j \in 1 .. taken :
                   i < j => Pos(b.io_queue, a.wait_queue[i]) < Pos(b.io_queue, a.wait_queue[j])

\* step() is called and its I/O dispatch finds two processes in wait_queue
\* and takes one of them
C34_Witness ==
    LET phases == StepPhases
    IN /\ Len(phases[6].wait_queue) >= 2
       /\ TakenForIo(phases) >= 1
       /\ phases[7].wait_queue # <<>>

\* C35 (first-dispatch time): a process that has never been dispatched has
\* no first-dispatch time (first_run_time, first_dispatch_time under
\* Adaptive), and one that has been dispatched has the tick of its earliest
\* dispatch, whatever was done to it since.
C35_FirstDispatchOnce ==
    \A o \in 1 .. Len(procs) :
        IF DispatchTicks(o) = {} THEN FirstRun(o) = NoTime
        ELSE /\ FirstRun(o) \in DispatchTicks(o)
             /\ \A t \in DispatchTicks(o) : FirstRun(o) <= t

\* a process has been preempted, has done I/O, and has been dispatched three
\* times or more
C35_Witness ==
    \E o \in 1 .. Len(procs) :
        /\ Cardinality(DispatchTicks(o)) >= 3
        /\ PreemptTicks(o) # {}
        /\ procs[o].io_time > 0

\* ------------------------------------------------------ time accounting
\* the sum of the durations of the bursts of one kind
RECURSIVE SumKind(_, _)
SumKind(bursts, kind) ==
    IF bursts = <<>> THEN 0
    ELSE (IF Head(bursts).kind = kind THEN Head(bursts).duration ELSE 0)
         + SumKind(Tail(bursts), kind)

\* C36 (runtime and io_time): every process in finished has a runtime equal
\* to the sum of the durations of its CPU bursts and an io_time equal to the
\* sum of the durations of its I/O bursts, under every policy and however
\* often it was preempted.
C36_TimeTotals ==
    \A i \in DOMAIN finished :
        /\ procs[finished[i]].runtime = SumKind(procs[finished[i]].bursts, "cpu")
        /\ procs[finished[i]].io_time = SumKind(procs[finished[i]].bursts, "io")

\* a finished process that has two CPU bursts and an I/O burst and was
\* preempted on the way
C36_Witness ==
    \E i \in DOMAIN finished :
        /\ Len(procs[finished[i]].bursts) = 3
        /\ procs[finished[i]].io_time > 0
        /\ procs[finished[i]].runtime >= 3
        /\ PreemptTicks(finished[i]) # {}

\* every process was added before the first step, and no process ever has
\* to queue for an I/O device
AddedAtStart == \A o \in DOMAIN add_log : add_log[o] = 0

\* C37 (turnaround identity): under FCFS, SJF and Round Robin, with every
\* process added before the first step and at least as many I/O devices as
\* processes, every finished process has
\* turnaround_time = wait_time + runtime + io_time.
C37_TurnaroundIdentity ==
    (/\ policy \in {"FCFS", "SJF", "RR"}
     /\ AddedAtStart
     /\ num_ios >= Len(procs)) =>
        \A i \in DOMAIN finished :
            LET p == procs[finished[i]]
            IN p.turnaround_time = p.wait_time + p.runtime + p.io_time

\* under Round Robin, with as many I/O devices as processes, a process has
\* finished after waiting in ready_queue, being preempted and doing I/O
C37_Witness ==
    /\ policy = "RR"
    /\ AddedAtStart
    /\ num_ios >= Len(procs)
    /\ \E i \in DOMAIN finished :
          /\ procs[finished[i]].wait_time > 0
          /\ procs[finished[i]].io_time > 0
          /\ PreemptTicks(finished[i]) # {}

\* C38 (SRTF, one CPU): when step() returns with the CPU occupied, the
\* running process has a remaining time in its current CPU burst no larger
\* than that of any process in ready_queue, also of one that returned from
\* I/O during the step.
C38_RunningIsShortest ==
    (policy = "SRTF" /\ num_cpus = 1 /\ clock > 0 /\ cpu_queue[1] # None) =>
        \A i \in DOMAIN ready_queue :
            get_remaining_burst_time(procs[cpu_queue[1]])
                <= get_remaining_burst_time(procs[ready_queue[i]])

\* ------------------------------------------------------ dispatch guards
\* C40 (state guards): when _dispatch_to_cpus runs every process in
\* ready_queue has state "ready", when _dispatch_to_io_devices runs every
\* process in wait_queue has state "waiting", and every process that either
\* of them pops is put on a slot: none is dropped by the guard.
C40_GuardsNeverDiscard ==
    LET phases == StepPhases
        a == phases[5]
        b == phases[6]
        c == phases[7]
    IN /\ \A i \in DOMAIN a.ready_queue : a.procs[a.ready_queue[i]].state = "ready"
       /\ \A i \in DOMAIN b.wait_queue : b.procs[b.wait_queue[i]].state = "waiting"
       /\ Len(a.ready_queue) - Len(b.ready_queue)
             = Occupied(b.cpu_queue) - Occupied(a.cpu_queue)
       /\ Len(b.wait_queue) - Len(c.wait_queue)
             = Occupied(c.io_queue) - Occupied(b.io_queue)

\* step() is called and preempts a process, dispatches from ready_queue and
\* dispatches from wait_queue
C40_Witness ==
    LET phases == StepPhases
    IN /\ phases[5].preempt_log # preempt_log
       /\ Len(phases[6].ready_queue) < Len(phases[5].ready_queue)
       /\ TakenForIo(phases) >= 1

\* ------------------------------------------------------ the two Round Robin runs
Members(q) == {q[i] : i \in DOMAIN q}

\* C39 (RRScheduler and the standalone Scheduler): stepped side by side on
\* the same jobs they have the same clock, the same ready order, the same
\* waiting order, the same processes on CPUs, the same processes on I/O
\* devices and the same finished order.
C39_SameQueues ==
    policy = "RR" =>
        /\ standalone.clock = clock
        /\ standalone.ready = ready_queue
        /\ standalone.wait = wait_queue
        /\ Members(standalone.cpu) = Members(cpu_queue) \ {None}
        /\ Members(standalone.io) = Members(io_queue) \ {None}
        /\ standalone.terminated = finished

\* C39 with one CPU and one I/O device
C39_SameQueuesSingle ==
    (policy = "RR" /\ num_cpus = 1 /\ num_ios = 1) =>
        /\ standalone.clock = clock
        /\ standalone.ready = ready_queue
        /\ standalone.wait = wait_queue
        /\ Members(standalone.cpu) = Members(cpu_queue) \ {None}
        /\ Members(standalone.io) = Members(io_queue) \ {None}
        /\ standalone.terminated = finished
====
